---- MODULE Spec2Model ----
(***************************************************************************)
(* Model of the gesix-data-quality pipeline: the Unify -> Remediate ->     *)
(* Score feedback loop of backend/main.py with the cleaner and validator   *)
(* it drives, and the earlier CSV pipeline kept under src/src.             *)
(*                                                                         *)
(* A table (pandas DataFrame) is a record                                  *)
(*     [cols : set of column names, num : numeric columns, rows : Seq]     *)
(* whose rows are functions from cols to cells.  A cell is a string; NA    *)
(* stands for NaN/None; the cells of a numeric column are canonical        *)
(* numerals.  Row i of the model is pandas index label i-1.                *)
(* Scores are kept in hundredths (9500 is 95.00); a score before rounding  *)
(* is a fraction <<numerator, denominator>>.                               *)
(***************************************************************************)
EXTENDS Integers, Sequences, FiniteSets, TLC

VARIABLES
    pc,             \* position of run_pipeline / of the component under study
    source_type,    \* run_pipeline argument
    upload,         \* the user's file: NoFile or the records it holds
    last_step,      \* sys._last_step
    rawStore,       \* data/raw: NoFile or the archived raw artifact
    unified,        \* data/processed/raw_structured.parquet
    cleaned,        \* data/processed/cleaned_data.parquet
    cleanedCsv,     \* data/processed/cleaned_data.csv
    quality_report, \* run_pipeline's local quality_report
    result,         \* what run_pipeline returned (NoValue while running)
    trace,          \* the stage calls made so far, in order
    df,             \* table handed to a component studied on its own
    df2,            \* its result
    feedback,       \* feedback handed to targeted_remediation
    now             \* datetime.now(), in days

vars == <<pc, source_type, upload, last_step, rawStore, unified, cleaned,
          cleanedCsv, quality_report, result, trace, df, df2, feedback, now>>

-----------------------------------------------------------------------------
(* Bounds *)

MaxRows == 3

\* how far the clock may advance
MaxNow == 2

\* how many index labels one feedback list may carry
MaxListed == 2

\* how many runs follow one another, and how many rows each uploads
MaxRuns == 2

MaxRunRows == 1

-----------------------------------------------------------------------------
(* Cells *)

NA == "<NA>"

\* a path that os.path.exists() denies; Python's None; a raised exception
NoFile == [nofile |-> TRUE]
None == [none |-> TRUE]
Raised == [raised |-> TRUE]

\* a file that is present and that its reader cannot read
Unreadable == [unreadable |-> TRUE]

\* src/backend/src/remediation/cleaner.py:43, 50, 91
MetaCols == {"source", "ingested_at", "remediation_notes"}

\* cleaner.py:46  replace({'': nan, '-': nan, 'None': nan, 'nan': nan})
\* the one-character string U+2014
EmDash == "<em dash>"

NullTokens == {"", EmDash, "None", "nan"}

\* str.strip()
Strip(s) ==
    CASE s = " 2" -> "2"
      [] s = "x " -> "x"
      [] s = " "  -> ""
      [] OTHER    -> s

\* astype(str): a missing value prints as "nan"
AsStr(s) == IF s = NA THEN "nan" ELSE s

Numerals == {"0", "1", "2"}

\* pd.to_numeric(errors='coerce') on one cell
ToNumeric(s) == IF s \in Numerals THEN s ELSE NA

NumVal(s) == CASE s = "0" -> 0 [] s = "1" -> 1 [] s = "2" -> 2 [] OTHER -> 0

\* pd.to_datetime(errors='coerce').dt.strftime('%Y-%m-%d %H:%M:%S') on one
\* cell; a number is read as nanoseconds since the epoch
ToDatetimeStr(s, isNum) ==
    CASE s = NA                      -> NA
      [] isNum                       -> "1970-01-01 00:00:00"
      [] s = "2026-02-01"            -> "2026-02-01 00:00:00"
      [] s = "2026-02-01 00:00:00"   -> "2026-02-01 00:00:00"
      [] s = "2026-03-01"            -> "2026-03-01 00:00:00"
      [] s = "2026-03-01 00:00:00"   -> "2026-03-01 00:00:00"
      [] OTHER                       -> NA

\* any(x in c.lower() for x in ['date', 'time', 'timestamp', '_at'])
IsDateCol(c) == c \in {"listed_date", "ingested_at"}

SuspiciousNote == "Suspicious null or zero value detected; "

\* "Suspicious null" in str(x)
HasSuspicious(x) == x = SuspiciousNote

-----------------------------------------------------------------------------
(* Tables *)

RECURSIVE SelectIdx(_, _, _)
\* the subsequence of s at the positions i >= from with Keep(i)
SelectIdx(s, keep, from) ==
    IF from > Len(s) THEN <<>>
    ELSE IF from \in keep THEN <<s[from]>> \o SelectIdx(s, keep, from + 1)
    ELSE SelectIdx(s, keep, from + 1)

KeepRows(t, keep) == [t EXCEPT !.rows = SelectIdx(t.rows, keep, 1)]

\* restrict a table to a set of columns
KeepCols(t, cs) ==
    [cols |-> cs, num |-> t.num \cap cs,
     rows |-> [i \in 1..Len(t.rows) |-> [c \in cs |-> t.rows[i][c]]]]

NonNull(t, c) == {i \in 1..Len(t.rows) : t.rows[i][c] # NA}

-----------------------------------------------------------------------------
(* Remediator: src/backend/src/remediation/cleaner.py *)

\* df.dropna(how='all', axis=0) then df.dropna(how='all', axis=1)
DropEmpty(t) ==
    LET r == KeepRows(t, {i \in 1..Len(t.rows) :
                             \E c \in t.cols : t.rows[i][c] # NA})
    IN  KeepCols(r, {c \in r.cols : \E i \in 1..Len(r.rows) : r.rows[i][c] # NA})

\* astype(str).str.strip() and the null tokens, on the text columns that
\* are not lineage columns
NormalizeCell(s) ==
    LET v == Strip(AsStr(s)) IN IF v \in NullTokens THEN NA ELSE v

NormalizeStrings(t) ==
    [t EXCEPT !.rows = [i \in 1..Len(t.rows) |->
        [c \in t.cols |->
            IF c \notin t.num /\ c \notin MetaCols
            THEN NormalizeCell(t.rows[i][c]) ELSE t.rows[i][c]]]]

\* num_series.notna().sum() / len(df) > 0.8
CoercesToNumeric(t, c) ==
    10 * Cardinality({i \in 1..Len(t.rows) : ToNumeric(t.rows[i][c]) # NA})
        > 8 * Len(t.rows)

CoerceNumerics(t) ==
    LET hit == {c \in t.cols \ MetaCols : CoercesToNumeric(t, c)}
    IN  [cols |-> t.cols, num |-> t.num \cup hit,
         rows |-> [i \in 1..Len(t.rows) |->
             [c \in t.cols |->
                 IF c \in hit THEN ToNumeric(t.rows[i][c]) ELSE t.rows[i][c]]]]

StandardizeDates(t) ==
    LET hit == {c \in t.cols : IsDateCol(c) /\ c # "ingested_at"}
    IN  [cols |-> t.cols, num |-> t.num \ hit,
         rows |-> [i \in 1..Len(t.rows) |->
             [c \in t.cols |->
                 IF c \in hit THEN ToDatetimeStr(t.rows[i][c], c \in t.num)
                 ELSE t.rows[i][c]]]]

generic_cleanup(t) ==
    StandardizeDates(CoerceNumerics(NormalizeStrings(DropEmpty(t))))

\* x + "Suspicious null or zero value detected; "
AppendNote(x) == IF x = "" THEN SuspiciousNote ELSE x

handle_missing_values(t) ==
    LET cs == t.cols \cup {"remediation_notes"}
        withNotes ==
            [cols |-> cs, num |-> t.num,
             rows |-> [i \in 1..Len(t.rows) |->
                 [c \in cs |->
                     IF c = "remediation_notes"
                     THEN IF c \in t.cols /\ t.rows[i][c] # NA
                          THEN t.rows[i][c] ELSE ""
                     ELSE t.rows[i][c]]]]
        check_cols == cs \ MetaCols
        mask(i) ==
            IF withNotes.num # {}
            THEN \E c \in withNotes.num :
                    \/ withNotes.rows[i][c] = NA
                    \/ NumVal(withNotes.rows[i][c]) = 0
            ELSE \E c \in check_cols : withNotes.rows[i][c] = NA
    IN  [withNotes EXCEPT !.rows = [i \in 1..Len(withNotes.rows) |->
            IF mask(i) /\ ~HasSuspicious(withNotes.rows[i]["remediation_notes"])
            THEN [withNotes.rows[i] EXCEPT
                    !["remediation_notes"] = AppendNote(@)]
            ELSE withNotes.rows[i]]]

\* df.duplicated(keep='first'), as index labels (0-based), in row order
RECURSIVE DupLabels(_, _)
DupLabels(rows, i) ==
    IF i > Len(rows) THEN <<>>
    ELSE IF \E j \in 1..(i - 1) : rows[j] = rows[i]
         THEN <<i - 1>> \o DupLabels(rows, i + 1)
         ELSE DupLabels(rows, i + 1)

duplicated_first(t) == DupLabels(t.rows, 1)

Range(s) == {s[i] : i \in 1..Len(s)}

drop_duplicates_KeepLast(t) ==
    KeepRows(t, {i \in 1..Len(t.rows) :
                    \A j \in (i + 1)..Len(t.rows) : t.rows[j] # t.rows[i]})

\* df.drop_duplicates(keep='first')
drop_duplicates(t) ==
    KeepRows(t, {i \in 1..Len(t.rows) : (i - 1) \notin Range(duplicated_first(t))})

BulkPass_NoDedup(t) == handle_missing_values(generic_cleanup(t))

\* the table run_remediation writes: cleaner.py:110-115
BulkPass(t) == drop_duplicates(handle_missing_values(generic_cleanup(t)))

-----------------------------------------------------------------------------
(* Fractions and rounding *)

RECURSIVE GCD(_, _)
GCD(a, b) == IF b = 0 THEN a ELSE GCD(b, a % b)

Norm(f) == LET g == GCD(f[1], f[2]) IN IF g = 0 THEN f ELSE <<f[1] \div g, f[2] \div g>>

FAdd(a, b) == Norm(<<a[1] * b[2] + b[1] * a[2], a[2] * b[2]>>)

FDiv(a, k) == Norm(<<a[1], a[2] * k>>)

Whole(n) == <<n, 1>>

RECURSIVE FSum(_)
FSum(s) == IF s = <<>> THEN Whole(0) ELSE FAdd(s[1], FSum(Tail(s)))

\* round(x, 2) in hundredths, ties to even
Round2(f) ==
    LET n == 100 * f[1]
        q == n \div f[2]
        r == n % f[2]
    IN  IF 2 * r > f[2] \/ (2 * r = f[2] /\ q % 2 = 1) THEN q + 1 ELSE q

\* the members of a finite set as a sequence, in some fixed order
RECURSIVE SetToSeq(_)
SetToSeq(S) ==
    IF S = {} THEN <<>>
    ELSE LET x == CHOOSE y \in S : TRUE IN <<x>> \o SetToSeq(S \ {x})

-----------------------------------------------------------------------------
(* Scorer: src/backend/src/qa/validator.py *)

Dims == {"Completeness", "Accuracy", "Validity", "Consistency",
         "Uniqueness", "Integrity", "Lineage"}

DimSeq == <<"Completeness", "Accuracy", "Validity", "Consistency",
            "Uniqueness", "Integrity", "Lineage">>

NoDataStatus == "No Data Found for this period"

\* 100.0 - unexpected_percent, with unexpected_percent = bad / of * 100
PercentOk(bad, of) == <<100 * (of - bad), of>>

\* dateutil.parser.parse accepts the cell
DateutilParseable(s) ==
    s \in {"t0", "2026-02-01", "2026-02-01 00:00:00", "2026-03-01",
           "2026-03-01 00:00:00", "1970-01-01 00:00:00", "1", "2"}

\* validator.py:62-66
CompletenessScores(t) ==
    [k \in 1..Cardinality(t.cols) |->
        LET c == SetToSeq(t.cols)[k]
        IN  PercentOk(Len(t.rows) - Cardinality(NonNull(t, c)), Len(t.rows))]

\* validator.py:72-75: mean and std exist and std # 0
HasSpread(t, c) ==
    LET nn == NonNull(t, c)
        m  == Cardinality(nn)
        xs == [i \in nn |-> NumVal(t.rows[i][c])]
    IN  /\ Len(t.rows) > 1
        /\ m >= 2
        /\ \E i, j \in nn : xs[i] # xs[j]

RECURSIVE SumOver(_, _)
SumOver(f, S) ==
    IF S = {} THEN 0
    ELSE LET x == CHOOSE y \in S : TRUE IN f[x] + SumOver(f, S \ {x})

\* mean - 3*std <= x <= mean + 3*std, std the sample deviation, in integers:
\* (m*x - S)^2 * (m-1) <= 9 * m * (m*Q - S^2)
Within3Std(t, c, i) ==
    LET nn == NonNull(t, c)
        m  == Cardinality(nn)
        xs == [k \in nn |-> NumVal(t.rows[k][c])]
        S  == SumOver(xs, nn)
        Q  == SumOver([k \in nn |-> xs[k] * xs[k]], nn)
        d  == m * xs[i] - S
    IN  d * d * (m - 1) <= 9 * m * (m * Q - S * S)

\* validator.py:69-80
AccuracyScores(t) ==
    LET cs == SetToSeq({c \in t.num : HasSpread(t, c)})
    IN  [k \in 1..Len(cs) |->
            LET nn == NonNull(t, cs[k])
            IN  PercentOk(Cardinality({i \in nn : ~Within3Std(t, cs[k], i)}),
                          Cardinality(nn))]

\* validator.py:83-89: every non-null cell of the column has the column's type
TypeMatches(t, c) ==
    \A i \in NonNull(t, c) : c \in t.num => t.rows[i][c] \in Numerals

ValidityScores(t) ==
    [k \in 1..Cardinality(t.cols) |->
        IF TypeMatches(t, SetToSeq(t.cols)[k]) THEN Whole(100) ELSE Whole(0)]

DateCols(t) == {c \in t.cols : IsDateCol(c)}

\* validator.py:92-96
ConsistencyScores(t) ==
    LET cs == SetToSeq(DateCols(t))
    IN  [k \in 1..Len(cs) |->
            LET nn == NonNull(t, cs[k])
            IN  PercentOk(Cardinality({i \in nn :
                              ~DateutilParseable(t.rows[i][cs[k]])}),
                          Cardinality(nn))]

\* unexpected_count of expect_compound_columns_to_be_unique: the rows that
\* have an identical row elsewhere in the table
CompoundUnexpected(t) ==
    Cardinality({i \in 1..Len(t.rows) :
                    \E j \in 1..Len(t.rows) : j # i /\ t.rows[j] = t.rows[i]})

\* validator.py:99-105
UniquenessScores(t) ==
    <<PercentOk(CompoundUnexpected(t), Len(t.rows))>>

IntegrityScores_SourceOnly(t) ==
    <<IF "source" \in t.cols THEN Whole(100) ELSE Whole(0)>>

\* validator.py:108-111
IntegrityScores(t) ==
    <<IF "source" \in t.cols THEN Whole(100) ELSE Whole(0),
      IF "ingested_at" \in t.cols THEN Whole(100) ELSE Whole(0)>>

\* validator.py:114-119
LineageScores(t) ==
    IF "source" \in t.cols
    THEN <<PercentOk(Len(t.rows) - Cardinality(NonNull(t, "source")),
                     Len(t.rows))>>
    ELSE <<Whole(0)>>

dimension_scores(t) ==
    [d \in Dims |->
        CASE d = "Completeness" -> CompletenessScores(t)
          [] d = "Accuracy"     -> AccuracyScores(t)
          [] d = "Validity"     -> ValidityScores(t)
          [] d = "Consistency"  -> ConsistencyScores(t)
          [] d = "Uniqueness"   -> UniquenessScores(t)
          [] d = "Integrity"    -> IntegrityScores(t)
          [] d = "Lineage"      -> LineageScores(t)]

\* validator.py:121-127: sum(scores) / len(scores), or 100.0 for no scores
final_scores(t) ==
    [d \in Dims |->
        LET s == dimension_scores(t)[d]
        IN  IF Len(s) > 0 THEN FDiv(FSum(s), Len(s)) ELSE Whole(100)]

overall_score_Of6(t) ==
    FDiv(FSum([k \in 1..6 |-> final_scores(t)[DimSeq[k]]]), 6)

\* validator.py:257-258
overall_score(t) ==
    FDiv(FSum([k \in 1..7 |-> final_scores(t)[DimSeq[k]]]), 7)

\* validator.py:226-232
NoDataReport ==
    [total_records |-> 0, overall_trustability |-> 0, status |-> NoDataStatus,
     dimensions |-> [d \in Dims |-> 0],
     issue_metadata |-> [duplicate_indices |-> <<>>,
                         integrity_fail_indices |-> <<>>]]

\* a date column without a non-null cell has unexpected_percent None, and
\* float(None) raises
SuiteRaises(t) == \E c \in DateCols(t) : NonNull(t, c) = {}

\* DataValidator.validate on the file holding t
validate(t) ==
    IF t = NoFile THEN None
    ELSE IF Len(t.rows) = 0 THEN NoDataReport
    ELSE IF SuiteRaises(t) THEN Raised
    ELSE [total_records |-> Len(t.rows),
          overall_trustability |-> Round2(overall_score(t)),
          status |-> "Success",
          dimensions |-> [d \in Dims |-> Round2(final_scores(t)[d])],
          issue_metadata |-> [duplicate_indices |-> duplicated_first(t),
                              integrity_fail_indices |-> <<>>]]

-----------------------------------------------------------------------------
(* Targeted pass: cleaner.py:130-171 *)

\* a frame keeps its index labels while rows are dropped
Labelled(t) == [i \in 1..Len(t.rows) |-> [label |-> i - 1, row |-> t.rows[i]]]

LabelsOf(lf) == {lf[i].label : i \in 1..Len(lf)}

\* df.drop(index=labels), every label present
DropLabels(lf, labels) ==
    SelectIdx(lf, {i \in 1..Len(lf) : lf[i].label \notin labels}, 1)

\* 'issue_metadata' in feedback, for a non-empty feedback mapping
Actionable(fb) == fb # None /\ "issue_metadata" \in DOMAIN fb

\* cleaner.py:150-164 on the frame read from cleaned_data.parquet
TargetedDrops(t, fb) ==
    LET md == fb.issue_metadata
        indices_to_drop == Range(md.duplicate_indices) \cap LabelsOf(Labelled(t))
        afterA == DropLabels(Labelled(t), indices_to_drop)
        targets == Range(md.integrity_fail_indices) \cap LabelsOf(afterA)
        afterB == DropLabels(afterA, targets)
    IN  [t EXCEPT !.rows = [i \in 1..Len(afterB) |-> afterB[i].row]]

\* the table targeted_remediation leaves in cleaned_data.parquet
targeted_remediation(t, fb) ==
    IF Actionable(fb) THEN TargetedDrops(t, fb) ELSE t

-----------------------------------------------------------------------------
(* Ingestion and unification: scraper.py:139-157, converter.py:472-489,    *)
(* converter.py:613-657                                                    *)

SourceTypes == {"upload", "bogus"}

UploadCols == {"a", "b"}

UploadCells == [a : {"", "1", "0", "x"}, b : {"", "x"}]

RECURSIVE SeqsUpTo(_, _)
\* the sequences over S of length at most n
SeqsUpTo(S, n) ==
    IF n = 0 THEN {<<>>}
    ELSE LET shorter == SeqsUpTo(S, n - 1)
         IN  shorter \cup {Append(s, x) : s \in {q \in shorter : Len(q) = n - 1},
                                          x \in S}

\* the user's CSV file: absent, or its data rows
Uploads == {NoFile} \cup {[records |-> s] : s \in SeqsUpTo(UploadCells, MaxRows)}

\* handle_user_upload: the archived raw artifact, or None
handle_user_upload(file) == IF file = NoFile THEN None ELSE file

\* parse_user_csv on the latest raw artifact: one record per row, stamped
\* with its lineage fields; no artifact, or one read_csv cannot read, gives
\* no record
parse_user_csv(raw) ==
    IF raw = NoFile THEN <<>>
    ELSE IF "records" \notin DOMAIN raw THEN <<>>
    ELSE [i \in 1..Len(raw.records) |->
            [c \in DOMAIN raw.records[i] \cup {"source", "ingested_at"} |->
                CASE c = "source"      -> "User_Upload"
                  [] c = "ingested_at" -> "t0"
                  [] OTHER             -> raw.records[i][c]]]

\* converter.py:82: data.get on JSON whose top level is not an object
parse_api_json_raises(raw) == raw.kind = "array"

\* parse_api_json on the latest api_data artifact
parse_api_json(raw) ==
    CASE raw.kind \in {"absent", "malformed"} -> <<>>
      [] raw.kind = "array" -> Raised
      [] raw.records = <<>> ->
            <<[data |-> "[]", source |-> "API_Source", ingested_at |-> "t0"]>>
      [] OTHER ->
            [i \in 1..Len(raw.records) |->
                [c \in DOMAIN raw.records[i] \cup {"source", "ingested_at"} |->
                    CASE c = "source"      -> "API_Source"
                      [] c = "ingested_at" -> "t0"
                      [] OTHER             -> raw.records[i][c]]]

\* the columns of pd.DataFrame(all_data): the union of the records' keys
Columns(all_data) == UNION {DOMAIN all_data[i] : i \in 1..Len(all_data)}

\* pd.DataFrame(all_data): a key a record lacks is a missing cell
DataFrame(all_data) ==
    [cols |-> Columns(all_data), num |-> {},
     rows |-> [i \in 1..Len(all_data) |->
                 [c \in Columns(all_data) |->
                     IF c \in DOMAIN all_data[i] THEN all_data[i][c] ELSE NA]]]

\* converter.py:640-657 on the records extracted
unify_records(all_data) ==
    IF all_data = <<>> THEN None
    ELSE LET frame == DataFrame(all_data)
         IN  [frame EXCEPT !.rows =
                 [i \in 1..Len(frame.rows) |->
                     [c \in frame.cols |-> AsStr(frame.rows[i][c])]]]

\* unify_to_parquet(source_filter="upload"): None, or the table written to
\* raw_structured.parquet
unify_to_parquet(raw) == unify_records(parse_user_csv(raw))

\* the parsers unify_to_parquet runs, in the order of source_map
Targets(source_filter) ==
    IF source_filter \in {"api", "upload"} THEN <<source_filter>>
    ELSE <<"api", "upload">>

\* unify_to_parquet(source_filter) on a raw store holding an api_data and a
\* user_upload artifact
unify_store(store, source_filter) ==
    LET runs(k) == \E i \in 1..Len(Targets(source_filter)) :
                      Targets(source_filter)[i] = k
    IN  IF runs("api") /\ parse_api_json_raises(store.api) THEN Raised
        ELSE unify_records(
                 (IF runs("api") THEN parse_api_json(store.api) ELSE <<>>)
                 \o (IF runs("upload") THEN parse_user_csv(store.upload)
                                       ELSE <<>>))

-----------------------------------------------------------------------------
(* PipelineController: src/backend/main.py:44-152 *)

Threshold == 9500

ErrorReport ==
    [status |-> "Error", error |-> "exception", total_records |-> 0,
     overall_trustability |-> 0]

InvalidSourceReport ==
    [status |-> "Error", error |-> "Invalid source type", total_records |-> 0,
     overall_trustability |-> 0]

\* main.py:91
NoDataReturn ==
    [status |-> NoDataStatus, total_records |-> 0, overall_trustability |-> 0,
     dimensions |-> <<>>]

FailedReturn(kind) ==
    [status |-> kind, total_records |-> 0, overall_trustability |-> 0]

\* one entry per stage call: its name, whether it returned normally, and
\* what a scoring call returned
Called(name, ok, ret) == Append(trace, [call |-> name, ok |-> ok, ret |-> ret])

\* the value of sys._last_step while a stage runs: main.py:58, 93, 102, 111;
\* nothing assigns it between the initial scoring and the return
LastStepIn(name) ==
    CASE name = "ingest"          -> "Ingestion"
      [] name = "unify"           -> "Unification"
      [] name = "run_remediation" -> "Remediation"
      [] OTHER                    -> "Validation"

\* the entry of a stage call that raised, with the step main.py:147 names
Failed(name) ==
    Append(trace, [call |-> name, ok |-> FALSE, ret |-> None,
                   step |-> LastStepIn(name)])

Fail_Propagates(name) ==
    /\ trace' = Failed(name)
    /\ last_step' = "Error"
    /\ result' = Raised
    /\ pc' = "raised"

\* main.py:145-152
Fail(name) ==
    /\ trace' = Failed(name)
    /\ last_step' = "Error"
    /\ result' = ErrorReport
    /\ pc' = "done"

Return(name, r) ==
    /\ trace' = Called(name, TRUE, None)
    /\ result' = r
    /\ pc' = "done"

Init ==
    /\ pc = "start"
    /\ source_type \in SourceTypes
    /\ upload \in Uploads
    /\ last_step = "Unknown"
    /\ rawStore = NoFile
    /\ unified = NoFile
    /\ cleaned = NoFile
    /\ cleanedCsv = NoFile
    /\ quality_report = None
    /\ result = None
    /\ trace = <<>>
    /\ df = NoFile
    /\ df2 = NoFile
    /\ feedback = None
    /\ now = 0

\* main.py:46: purge_old_results(), outside the try block
PurgeOld ==
    /\ pc = "start"
    /\ \E listing_fails \in BOOLEAN :
        IF listing_fails
        THEN /\ trace' = Called("purge_old_results", FALSE, None)
             /\ result' = Raised
             /\ pc' = "raised"
             /\ UNCHANGED <<rawStore, unified, cleaned, cleanedCsv>>
        ELSE /\ trace' = Called("purge_old_results", TRUE, None)
             /\ rawStore' = NoFile
             /\ unified' = NoFile
             /\ cleaned' = NoFile
             /\ cleanedCsv' = NoFile
             /\ pc' = "ingest"
             /\ UNCHANGED result
    /\ UNCHANGED <<source_type, upload, last_step, quality_report, df, df2,
                   feedback, now>>

\* main.py:58-91
Ingest ==
    /\ pc = "ingest"
    /\ \E exc \in BOOLEAN :
        IF exc
        THEN Fail("ingest") /\ UNCHANGED rawStore
        ELSE IF source_type # "upload"
        THEN /\ Return("ingest", InvalidSourceReport)
             /\ last_step' = "Ingestion"
             /\ UNCHANGED rawStore
        ELSE LET raw_path == handle_user_upload(upload)
             IN  /\ last_step' = "Ingestion"
                 /\ IF raw_path = None
                    THEN Return("ingest", NoDataReturn) /\ UNCHANGED rawStore
                    ELSE /\ rawStore' = raw_path
                         /\ trace' = Called("ingest", TRUE, None)
                         /\ pc' = "unify"
                         /\ UNCHANGED result
    /\ UNCHANGED <<source_type, upload, unified, cleaned, cleanedCsv,
                   quality_report, df, df2, feedback, now>>

\* main.py:93-100
Unify ==
    /\ pc = "unify"
    /\ \E exc \in BOOLEAN :
        IF exc
        THEN Fail("unify") /\ UNCHANGED unified
        ELSE LET hub_path == unify_to_parquet(rawStore)
             IN  /\ last_step' = "Unification"
                 /\ IF hub_path = None
                    THEN /\ Return("unify", FailedReturn("Unification Failed"))
                         /\ UNCHANGED unified
                    ELSE /\ unified' = hub_path
                         /\ trace' = Called("unify", TRUE, None)
                         /\ pc' = "remediate"
                         /\ UNCHANGED result
    /\ UNCHANGED <<source_type, upload, rawStore, cleaned, cleanedCsv,
                   quality_report, df, df2, feedback, now>>

\* the unified file as load_data finds it: as written, removed since, or no
\* longer a parquet file
AsFound(file) == {file, NoFile, Unreadable}

\* cleaner.py:26-30: None for a missing file; read_parquet raises on a file
\* it cannot read
load_data(file) ==
    CASE file = NoFile     -> None
      [] file = Unreadable -> Raised
      [] OTHER             -> file

\* where run_remediation raises, if it does: in the cleaning steps of
\* cleaner.py:110-115, or in to_csv (cleaner.py:125) once to_parquet
\* (cleaner.py:121) has written the file
RemediationFailures == {"none", "cleaning", "to_csv"}

\* main.py:102-109 and cleaner.py:102-128
Remediate ==
    /\ pc = "remediate"
    /\ \E exc \in RemediationFailures, found \in AsFound(unified) :
        LET loaded == load_data(found)
        IN  /\ unified' = found
            /\ IF loaded = Raised
               THEN Fail("run_remediation") /\ UNCHANGED <<cleaned, cleanedCsv>>
               ELSE IF loaded = None \/ Len(loaded.rows) = 0
               THEN /\ Return("run_remediation",
                              FailedReturn("Remediation Failed"))
                    /\ last_step' = "Remediation"
                    /\ UNCHANGED <<cleaned, cleanedCsv>>
               ELSE IF exc = "cleaning"
               THEN Fail("run_remediation") /\ UNCHANGED <<cleaned, cleanedCsv>>
               ELSE IF exc = "to_csv"
               THEN /\ Fail("run_remediation")
                    /\ cleaned' = BulkPass(loaded)
                    /\ UNCHANGED cleanedCsv
               ELSE /\ cleaned' = BulkPass(loaded)
                    /\ cleanedCsv' = BulkPass(loaded)
                    /\ last_step' = "Remediation"
                    /\ trace' = Called("run_remediation", TRUE, None)
                    /\ pc' = "validate"
                    /\ UNCHANGED result
    /\ UNCHANGED <<source_type, upload, rawStore, quality_report,
                   df, df2, feedback, now>>

\* main.py:111-121; the cleaned file is as written or was removed since
\* (validator.py:213-215)
ValidateInitial ==
    /\ pc = "validate"
    /\ \E exc \in BOOLEAN, found \in {cleaned, NoFile} :
        LET report == validate(found)
        IN  /\ cleaned' = found
            /\ IF exc \/ report = Raised
               THEN Fail("validate") /\ UNCHANGED quality_report
               ELSE /\ last_step' = "Validation"
                    /\ quality_report' = report
                    /\ IF report = None
                       THEN Return("validate", FailedReturn("QA Failed"))
                       ELSE /\ trace' = Called("validate", TRUE, report)
                            /\ pc' = "feedback"
                            /\ UNCHANGED result
    /\ UNCHANGED <<source_type, upload, rawStore, unified, cleanedCsv,
                   df, df2, feedback, now>>

NeedsFeedback_At90(report) == report.overall_trustability < 9000

\* main.py:124
NeedsFeedback(report) == report.overall_trustability < Threshold

\* main.py:124-126 and cleaner.py:130-171
Feedback ==
    /\ pc = "feedback"
    /\ IF NeedsFeedback(quality_report)
       THEN \E exc \in BOOLEAN :
            IF exc
            THEN Fail("targeted_remediation") /\ UNCHANGED cleaned
            ELSE /\ cleaned' = targeted_remediation(cleaned, quality_report)
                 /\ trace' = Called("targeted_remediation", TRUE, None)
                 /\ pc' = "revalidate"
                 /\ UNCHANGED <<result, last_step>>
       ELSE /\ pc' = "purge"
            /\ UNCHANGED <<cleaned, trace, result, last_step>>
    /\ UNCHANGED <<source_type, upload, rawStore, unified, cleanedCsv,
                   quality_report, df, df2, feedback, now>>

AfterRevalidate_Retry(report) ==
    IF report.overall_trustability < 9500 THEN "feedback" ELSE "purge"

\* main.py:128-132: the code after the re-score is straight-line
AfterRevalidate(report) == "purge"

\* main.py:128-129
Revalidate ==
    /\ pc = "revalidate"
    /\ \E exc \in BOOLEAN :
        LET report == validate(cleaned)
        IN  IF exc \/ report = Raised \/ report = None
            THEN Fail("validate") /\ UNCHANGED quality_report
            ELSE /\ quality_report' = report
                 /\ trace' = Called("validate", TRUE, report)
                 /\ pc' = AfterRevalidate(report)
                 /\ UNCHANGED <<result, last_step>>
    /\ UNCHANGED <<source_type, upload, rawStore, unified, cleaned, cleanedCsv,
                   df, df2, feedback, now>>

PurgeOutcomes == {"erased", "remove_fails", "listdir_fails"}

purge_raw_files_ErasesThenRaises(outcome) ==
    CASE outcome = "erased"        -> [raised |-> FALSE, raw |-> NoFile]
      [] outcome = "remove_fails"  -> [raised |-> FALSE, raw |-> rawStore]
      [] outcome = "listdir_fails" -> [raised |-> TRUE, raw |-> NoFile]

\* main.py:31-42: os.remove is guarded, os.listdir is not
purge_raw_files(outcome) ==
    CASE outcome = "erased"        -> [raised |-> FALSE, raw |-> NoFile]
      [] outcome = "remove_fails"  -> [raised |-> FALSE, raw |-> rawStore]
      [] outcome = "listdir_fails" -> [raised |-> TRUE, raw |-> rawStore]

Purge_Skipped ==
    /\ pc = "purge"
    /\ Return("return", quality_report)
    /\ UNCHANGED <<source_type, upload, last_step, rawStore, unified, cleaned,
                   cleanedCsv, quality_report, df, df2, feedback, now>>

\* main.py:141-143
Purge ==
    /\ pc = "purge"
    /\ \E outcome \in PurgeOutcomes :
        LET p == purge_raw_files(outcome)
        IN  /\ rawStore' = p.raw
            /\ IF p.raised
               THEN Fail("purge_raw_files")
               ELSE Return("purge_raw_files", quality_report) /\ UNCHANGED last_step
    /\ UNCHANGED <<source_type, upload, unified, cleaned, cleanedCsv,
                   quality_report, df, df2, feedback, now>>

Next ==
    \/ PurgeOld
    \/ Ingest
    \/ Unify
    \/ Remediate
    \/ ValidateInitial
    \/ Feedback
    \/ Revalidate
    \/ Purge

Spec == Init /\ [][Next]_vars

-----------------------------------------------------------------------------
(* Properties of run_pipeline, checked under Spec *)

Calls(name) == {i \in 1..Len(trace) : trace[i].call = name}

\* the scoring calls that returned a report
ScoreCalls == {i \in Calls("validate") : trace[i].ok /\ trace[i].ret # None}

InitialReport == trace[CHOOSE i \in ScoreCalls : \A j \in ScoreCalls : i <= j].ret

FinalReport == trace[CHOOSE i \in ScoreCalls : \A j \in ScoreCalls : j <= i].ret

\* run_pipeline returned the scorer's report
Succeeded == pc = "done" /\ result.status = "Success"

StageFailed(name) == \E i \in Calls(name) : ~trace[i].ok

\* C1: the targeted pass and the re-score run if and only if the initial
\* report's overall_trustability is strictly below 95.0; with 95.0 or more
\* the run returns the initial report without a targeted pass.
C1_FeedbackIffBelowThreshold ==
    /\ \A i \in Calls("targeted_remediation") :
          /\ (i - 1) \in ScoreCalls
          /\ trace[i - 1].ret.overall_trustability < 9500
    /\ Succeeded =>
          IF InitialReport.overall_trustability < 9500
          THEN \E i \in Calls("targeted_remediation") :
                  trace[i].ok /\ (i + 1) \in ScoreCalls
          ELSE /\ Calls("targeted_remediation") = {}
               /\ Cardinality(ScoreCalls) = 1
               /\ result = InitialReport

C1_Witness ==
    /\ Succeeded
    /\ InitialReport.overall_trustability < 9500
    /\ Calls("targeted_remediation") # {}

\* C2: one run makes at most one targeted pass and at most two scoring
\* calls, and no targeted pass follows the second scoring call.
C2_AtMostOneFeedbackCycle ==
    /\ Cardinality(Calls("targeted_remediation")) <= 1
    /\ Cardinality(Calls("validate")) <= 2
    /\ \A i \in Calls("targeted_remediation") :
          Cardinality({j \in Calls("validate") : j < i}) = 1

C2_Witness ==
    /\ Succeeded
    /\ Cardinality(Calls("targeted_remediation")) = 1
    /\ Cardinality(Calls("validate")) = 2
    /\ result.overall_trustability < 9500

Stages == {"ingest", "unify", "run_remediation", "validate",
           "targeted_remediation", "purge_raw_files"}

ReportShaped(r) ==
    {"status", "total_records", "overall_trustability"} \subseteq DOMAIN r

\* C3: an exception raised in any stage is never propagated: run_pipeline
\* returns a report-shaped mapping, and every return other than the
\* scorer's report carries total_records 0, overall_trustability 0 and a
\* status.
C3_StageFailureReturnsReport ==
    /\ \A n \in Stages : StageFailed(n) =>
          /\ pc = "done"
          /\ ReportShaped(result)
          /\ result.status = "Error"
    /\ pc = "done" =>
          /\ ReportShaped(result)
          /\ result.status # "Success" =>
                result.total_records = 0 /\ result.overall_trustability = 0

C3_Witness ==
    /\ pc = "done"
    /\ StageFailed("targeted_remediation")
    /\ result.status = "Error"

\* extraction of the uploaded file yields no record
NothingExtracted ==
    /\ source_type = "upload"
    /\ upload = NoFile \/ Len(upload.records) = 0

\* C4: when extraction yields zero records the run ends with the status
\* "No Data Found for this period" and a report whose seven dimensions are
\* all 0, the Remediator and the Scorer are not invoked, and the status is
\* none of the unification, remediation or scoring failure statuses.
C4_NoDataOutcome ==
    (pc = "done" /\ NothingExtracted /\ \A n \in Stages : ~StageFailed(n)) =>
        /\ result.status = NoDataStatus
        /\ "dimensions" \in DOMAIN result
        /\ \A d \in Dims :
              d \in DOMAIN result.dimensions /\ result.dimensions[d] = 0
        /\ Calls("run_remediation") = {}
        /\ Calls("validate") = {}

\* C5: on a run that returns the scorer's report the raw purge is called
\* exactly once, after the last scoring call, and the report returned is
\* the one that last scoring call produced.
C5_PurgeOnceAfterFinalScore ==
    /\ Cardinality(Calls("purge_raw_files")) <= 1
    /\ Succeeded =>
          /\ Cardinality(Calls("purge_raw_files")) = 1
          /\ ScoreCalls # {}
          /\ \A p \in Calls("purge_raw_files") :
                \A v \in Calls("validate") : v < p
          /\ result = FinalReport

C5_Witness ==
    /\ Succeeded
    /\ Cardinality(ScoreCalls) = 2
    /\ Calls("purge_raw_files") = {Len(trace)}
    /\ rawStore = NoFile

\* C6: whatever way the raw purge at the end of a run fails, run_pipeline
\* returns the final report of the scorer.
C6_PurgeFailureIsNonFatal ==
    (pc = "done" /\ Calls("purge_raw_files") # {}) => result = quality_report

-----------------------------------------------------------------------------
(* The earlier CSV pipeline: src/src/qa/validator.py and                   *)
(* src/src/remediation/cleaner.py                                          *)

PriceNote == "Price invalid or missing - flagged for review"

IsoDates == {"2026-02-01", "2026-03-01"}

\* the day a listed_date falls on, on the scale of the clock
Day(s) == CASE s = "2026-02-01" -> 1 [] s = "2026-03-01" -> 2 [] OTHER -> 0

\* df.duplicated(subset=['address'], keep='first'), as index labels
RECURSIVE AddressDupLabels(_, _)
AddressDupLabels(rows, i) ==
    IF i > Len(rows) THEN <<>>
    ELSE IF \E j \in 1..(i - 1) : rows[j]["address"] = rows[i]["address"]
         THEN <<i - 1>> \o AddressDupLabels(rows, i + 1)
         ELSE AddressDupLabels(rows, i + 1)

\* ~integrity_mask: the rows whose price is not a number
RECURSIVE IntegrityFailLabels(_, _)
IntegrityFailLabels(rows, i) ==
    IF i > Len(rows) THEN <<>>
    ELSE IF ToNumeric(rows[i]["price"]) = NA
         THEN <<i - 1>> \o IntegrityFailLabels(rows, i + 1)
         ELSE IntegrityFailLabels(rows, i + 1)

\* the number of rows whose cell in column c belongs to S
Count(t, c, S) == Cardinality({i \in 1..Len(t.rows) : t.rows[i][c] \in S})

\* the values a cell can hold that are not null
Present(t, c) == {t.rows[i][c] : i \in 1..Len(t.rows)} \ {NA}

\* src/src/qa/validator.py:25-66, called when the clock reads n
legacy_dimensions(t, n) ==
    LET total == Len(t.rows)
        Share(k) == <<100 * k, total>>
    IN  [d \in Dims |->
          CASE d = "Completeness" ->
                   <<100 * (Count(t, "price", Present(t, "price"))
                            + Count(t, "address", Present(t, "address"))),
                     2 * total>>
            [] d = "Accuracy" ->
                   Share(total - (IF "remediation_notes" \in t.cols
                                  THEN Count(t, "remediation_notes", {PriceNote})
                                  ELSE 0))
            [] d = "Validity" ->
                   Share(Count(t, "listed_date", IsoDates))
            [] d = "Consistency" ->
                   Share(Count(t, "listed_date",
                               {s \in IsoDates : Day(s) <= n}))
            [] d = "Uniqueness" ->
                   Share(total - Len(AddressDupLabels(t.rows, 1)))
            [] d = "Integrity" ->
                   Share(total - Len(IntegrityFailLabels(t.rows, 1)))
            [] d = "Lineage" ->
                   Share(IF "source" \in t.cols
                         THEN Count(t, "source", Present(t, "source")) ELSE 0)]

\* src/src/qa/validator.py:13-90
legacy_validate(t, n) ==
    IF t = NoFile THEN None
    ELSE IF Len(t.rows) = 0 THEN None
    ELSE LET dim == legacy_dimensions(t, n)
         IN  [total_records |-> Len(t.rows),
              overall_trustability |->
                  Round2(FDiv(FSum([k \in 1..7 |-> dim[DimSeq[k]]]), 7)),
              dimensions |-> [d \in Dims |-> Round2(dim[d])],
              issue_metadata |->
                  [duplicate_indices |-> AddressDupLabels(t.rows, 1),
                   integrity_fail_indices |-> IntegrityFailLabels(t.rows, 1)]]

\* the frame with its index renumbered from 0
Renumbered(lf) == [i \in 1..Len(lf) |-> [label |-> i - 1, row |-> lf[i].row]]

legacy_targeted_remediation_Renumbering(t, fb) ==
    IF ~Actionable(fb) THEN t
    ELSE LET md == fb.issue_metadata
             lf == Labelled(t)
         IN  IF ~(Range(md.duplicate_indices) \subseteq LabelsOf(lf))
             THEN Raised
             ELSE LET afterA == Renumbered(
                                    DropLabels(lf, Range(md.duplicate_indices)))
                      targets == Range(md.integrity_fail_indices)
                                     \cap LabelsOf(afterA)
                      afterB == DropLabels(afterA, targets)
                  IN  [t EXCEPT !.rows =
                          [i \in 1..Len(afterB) |-> afterB[i].row]]

\* src/src/remediation/cleaner.py:76-105: the table left in
\* cleaned_data.csv, or Raised when df.drop meets a label that is absent
legacy_targeted_remediation(t, fb) ==
    IF ~Actionable(fb) THEN t
    ELSE LET md == fb.issue_metadata
             lf == Labelled(t)
         IN  IF ~(Range(md.duplicate_indices) \subseteq LabelsOf(lf))
             THEN Raised
             ELSE LET afterA == DropLabels(lf, Range(md.duplicate_indices))
                      targets == Range(md.integrity_fail_indices)
                                     \cap LabelsOf(afterA)
                      afterB == DropLabels(afterA, targets)
                  IN  [t EXCEPT !.rows =
                          [i \in 1..Len(afterB) |-> afterB[i].row]]

-----------------------------------------------------------------------------
(* The targeted pass on its own: SpecTargeted *)

TargetRows == [a : {"1", "x"}, source : {"User_Upload"}]

TargetTables ==
    {[cols |-> {"a", "source"}, num |-> {}, rows |-> r] :
        r \in SeqsUpTo(TargetRows, MaxRows) \ {<<>>}}

\* index labels a report may list: those of the table and one past them
IndexLists == SeqsUpTo(0..MaxRows, MaxListed)

Feedbacks ==
    {None, ErrorReport} \cup
    {[issue_metadata |-> [duplicate_indices |-> d, integrity_fail_indices |-> g]] :
        d \in IndexLists, g \in IndexLists}

InitParked ==
    /\ source_type = "upload"
    /\ upload = NoFile
    /\ last_step = "Unknown"
    /\ rawStore = NoFile
    /\ unified = NoFile
    /\ cleaned = NoFile
    /\ cleanedCsv = NoFile
    /\ quality_report = None
    /\ result = None
    /\ trace = <<>>

InitTargeted ==
    /\ InitParked
    /\ pc = "t_ready"
    /\ df \in TargetTables
    /\ df2 = NoFile
    /\ feedback \in Feedbacks
    /\ now = 0

Parked == <<source_type, upload, last_step, rawStore, unified, cleaned,
            cleanedCsv, quality_report, result, trace>>

TargetedBackend ==
    /\ pc = "t_ready"
    /\ df2' = targeted_remediation(df, feedback)
    /\ pc' = "t_backend"
    /\ UNCHANGED <<Parked, df, feedback, now>>

TargetedLegacy ==
    /\ pc = "t_ready"
    /\ df2' = legacy_targeted_remediation(df, feedback)
    /\ pc' = "t_legacy"
    /\ UNCHANGED <<Parked, df, feedback, now>>

NextTargeted == TargetedBackend \/ TargetedLegacy

SpecTargeted == InitTargeted /\ [][NextTargeted]_vars

\* the labels a feedback lists
Listed(fb) ==
    IF Actionable(fb)
    THEN Range(fb.issue_metadata.duplicate_indices)
             \cup Range(fb.issue_metadata.integrity_fail_indices)
    ELSE {}

ExactlyListedRemoved ==
    /\ df2 # Raised
    /\ df2.cols = df.cols
    /\ df2.rows = SelectIdx(df.rows,
                            {i \in 1..Len(df.rows) : (i - 1) \notin Listed(feedback)},
                            1)

\* C7: the targeted pass deletes exactly the rows whose index label is
\* listed in duplicate_indices or integrity_fail_indices and is present;
\* listed labels that are absent are ignored without error; every other
\* row, the row order and the cells are unchanged.
C7_TargetedDeletesExactlyListed ==
    pc \in {"t_backend", "t_legacy"} => ExactlyListedRemoved

\* what C7 says, of backend/src/remediation/cleaner.py alone
C7_BackendOnly == pc = "t_backend" => ExactlyListedRemoved

-----------------------------------------------------------------------------
(* The bulk pass on its own: SpecBulk *)

\* the non-empty unified tables the converter can write for an upload
BulkInputs ==
    {unify_to_parquet(u) : u \in {v \in Uploads \ {NoFile} : v.records # <<>>}}

InitBulk ==
    /\ InitParked
    /\ pc = "b_ready"
    /\ df \in BulkInputs
    /\ df2 = NoFile
    /\ feedback = None
    /\ now = 0

\* cleaner.py:110-115 on the unified table
BulkFirst ==
    /\ pc = "b_ready"
    /\ df2' = BulkPass(df)
    /\ pc' = "b_once"
    /\ UNCHANGED <<Parked, df, feedback, now>>

\* the same pass on the table the first pass produced
BulkSecond ==
    /\ pc = "b_once"
    /\ df' = df2
    /\ df2' = BulkPass(df2)
    /\ pc' = "b_twice"
    /\ UNCHANGED <<Parked, feedback, now>>

NextBulk == BulkFirst \/ BulkSecond

SpecBulk == InitBulk /\ [][NextBulk]_vars

\* C8: the bulk pass applied to its own output returns that output: no
\* row or column is dropped, no cell changes, no note is appended.
C8_BulkPassIdempotent == pc = "b_twice" => df2 = df

-----------------------------------------------------------------------------
(* Re-scoring with the CSV pipeline's validator: SpecLegacyScore *)

LegacyRows ==
    {[address |-> a, price |-> p[1], listed_date |-> d, source |-> "api",
      remediation_notes |-> p[2]] :
        a \in {"A", "B"}, p \in {<<"1", NA>>, <<NA, PriceNote>>}, d \in IsoDates}

LegacyTables ==
    {[cols |-> {"address", "price", "listed_date", "source", "remediation_notes"},
      num |-> {"price"}, rows |-> r] :
        r \in SeqsUpTo(LegacyRows, MaxRows)}

InitLegacyScore ==
    /\ source_type = "upload"
    /\ upload = NoFile
    /\ last_step = "Unknown"
    /\ rawStore = NoFile
    /\ unified = NoFile
    /\ cleaned = NoFile
    /\ cleanedCsv = NoFile
    /\ quality_report = None
    /\ result = None
    /\ trace = <<>>
    /\ pc = "l_ready"
    /\ df \in LegacyTables
    /\ df2 = NoFile
    /\ feedback = None
    /\ now = 0

\* validator.validate(cleaned_file), at most twice on the same file
LegacyValidate ==
    /\ pc = "l_ready"
    /\ Len(trace) < 2
    /\ trace' = Called("validate", TRUE, legacy_validate(df, now))
    /\ UNCHANGED <<pc, source_type, upload, last_step, rawStore, unified,
                   cleaned, cleanedCsv, quality_report, result, df, df2,
                   feedback, now>>

\* time passes between two calls
Tick ==
    /\ pc = "l_ready"
    /\ now < MaxNow
    /\ now' = now + 1
    /\ UNCHANGED <<pc, source_type, upload, last_step, rawStore, unified,
                   cleaned, cleanedCsv, quality_report, result, trace, df, df2,
                   feedback>>

NextLegacyScore == LegacyValidate \/ Tick

SpecLegacyScore == InitLegacyScore /\ [][NextLegacyScore]_vars

\* C9: two scoring calls on the same non-empty table, with no remediation
\* between them, return identical reports whenever they are made.
C9_RescoreIdentical ==
    \A i, j \in 1..Len(trace) : trace[i].ret = trace[j].ret

-----------------------------------------------------------------------------
(* The scorer on its own: SpecScore *)

ScoreRows ==
    [a : {NA, "1", "2", "x"}, source : {"User_Upload", NA},
     ingested_at : {"t0"}, remediation_notes : {""}]

\* column a is numeric only when each of its cells is a number or missing
NumChoices(rows) ==
    IF \A i \in 1..Len(rows) : rows[i]["a"] \in Numerals \cup {NA}
    THEN {{}, {"a"}} ELSE {{}}

\* cleaned files with or without each lineage column
ScoreTables ==
    {KeepCols([cols |-> {"a", "source", "ingested_at", "remediation_notes"},
               num |-> n, rows |-> r],
              {"a", "remediation_notes"} \cup lineage) :
        r \in SeqsUpTo(ScoreRows, MaxRows),
        n \in {{}, {"a"}},
        lineage \in SUBSET {"source", "ingested_at"}}

InitScore ==
    /\ InitParked
    /\ pc = "s_ready"
    /\ df \in {t \in ScoreTables : t.num \in NumChoices(t.rows)}
    /\ df2 = NoFile
    /\ feedback = None
    /\ now = 0

\* validator.validate(file) on a cleaned file
Score ==
    /\ pc = "s_ready"
    /\ quality_report' = validate(df)
    /\ pc' = "s_scored"
    /\ UNCHANGED <<source_type, upload, last_step, rawStore, unified, cleaned,
                   cleanedCsv, result, trace, df, df2, feedback, now>>

NextScore == Score

SpecScore == InitScore /\ [][NextScore]_vars

\* the sum of the seven reported dimension scores, in hundredths
ReportedSum(r) == SumOver(r.dimensions, Dims)

\* the mean of the seven reported scores, rounded to 2 decimals
ReportedMean(r) == Round2(<<ReportedSum(r), 700>>)

DimensionsInRange(r) ==
    \A d \in Dims : 0 <= r.dimensions[d] /\ r.dimensions[d] <= 10000

\* C10, as claimed: every dimension score lies in [0, 100] and
\* overall_trustability equals the mean of the seven reported dimension
\* scores rounded to 2 decimals.
C10_OverallIsMeanOfReported ==
    pc = "s_scored" =>
        /\ DimensionsInRange(quality_report)
        /\ quality_report.overall_trustability = ReportedMean(quality_report)

\* C10, amended: every dimension score lies in [0, 100] and
\* overall_trustability is within 0.01 of the rounded mean of the seven
\* reported scores (it is the rounded mean of the scores before they are
\* rounded for the report).
C10_OverallNearMeanOfReported ==
    pc = "s_scored" =>
        /\ DimensionsInRange(quality_report)
        /\ quality_report.overall_trustability - ReportedMean(quality_report)
               \in {-1, 0, 1}

C10_Witness ==
    /\ pc = "s_scored"
    /\ quality_report.total_records > 0
    /\ quality_report.overall_trustability # ReportedMean(quality_report)

-----------------------------------------------------------------------------
(* Scoring a table without rows *)

\* r is the report of a table without rows
IsNoDataReport(r) ==
    /\ r # None
    /\ r # Raised
    /\ r.total_records = 0
    /\ r.overall_trustability = 0
    /\ r.status = NoDataStatus
    /\ \A d \in Dims : r.dimensions[d] = 0

\* C11: scoring a table with zero rows returns a report, not an error and
\* not a missing value, with total_records 0, all seven dimensions 0,
\* overall_trustability 0 and the no-data status.
C11_ZeroRowsReport ==
    Len(df.rows) = 0 =>
        \A i \in 1..Len(trace) : trace[i].ok /\ IsNoDataReport(trace[i].ret)

\* the same statement for the validator of src/backend alone, under
\* SpecScore
C11_BackendOnly ==
    (pc = "s_scored" /\ Len(df.rows) = 0) => IsNoDataReport(quality_report)

-----------------------------------------------------------------------------
(* Integrity and Lineage of a scored table, under SpecScore *)

\* the scorer returned the report of a table with rows
ScoredRows ==
    /\ pc = "s_scored"
    /\ Len(df.rows) > 0
    /\ quality_report # Raised

LineageColumns == {"source", "ingested_at"}

\* C12, as claimed: Integrity is 100 when source and ingested_at are both
\* columns of the table and 50 otherwise; a table without the source column
\* scores Integrity 50 and Lineage 0.
C12_IntegrityHundredOrFifty ==
    ScoredRows =>
        /\ quality_report.dimensions["Integrity"] =
               IF LineageColumns \subseteq df.cols THEN 10000 ELSE 5000
        /\ "source" \notin df.cols =>
               /\ quality_report.dimensions["Integrity"] = 5000
               /\ quality_report.dimensions["Lineage"] = 0

\* C12, amended: Integrity is 50 for each of source and ingested_at that is
\* a column of the table (100, 50 or 0), and a table without the source
\* column scores Lineage 0 and Integrity 50 or 0.
C12_IntegrityPerLineageColumn ==
    ScoredRows =>
        /\ quality_report.dimensions["Integrity"] =
               5000 * Cardinality(LineageColumns \cap df.cols)
        /\ "source" \notin df.cols =>
               /\ quality_report.dimensions["Lineage"] = 0
               /\ quality_report.dimensions["Integrity"] =
                      IF "ingested_at" \in df.cols THEN 5000 ELSE 0

C12_Witness ==
    /\ ScoredRows
    /\ "source" \notin df.cols
    /\ "ingested_at" \in df.cols
    /\ quality_report.dimensions["Integrity"] = 5000
    /\ quality_report.dimensions["Lineage"] = 0

-----------------------------------------------------------------------------
(* Uniqueness and duplicate_indices of a scored table, under SpecScore *)

\* index labels of the rows that repeat an earlier row
LaterCopies(t) ==
    {i - 1 : i \in {k \in 1..Len(t.rows) :
                       \E j \in 1..(k - 1) : t.rows[j] = t.rows[k]}}

\* the reported duplicate_indices are exactly the later copies, ascending
ListsLaterCopies(r, t) ==
    LET d == r.issue_metadata.duplicate_indices
    IN  /\ Range(d) = LaterCopies(t)
        /\ \A i, j \in 1..Len(d) : i < j => d[i] < d[j]

\* C13: Uniqueness is (rows minus the rows that exactly duplicate an earlier
\* row) / rows x 100, and duplicate_indices holds exactly the indices of the
\* later-occurring copies.
C13_UniquenessCountsLaterCopies ==
    ScoredRows =>
        /\ quality_report.dimensions["Uniqueness"] =
               Round2(<<100 * (Len(df.rows) - Cardinality(LaterCopies(df))),
                        Len(df.rows)>>)
        /\ ListsLaterCopies(quality_report, df)

\* the part of C13 about duplicate_indices alone
C13_DuplicateIndicesOnly ==
    ScoredRows => ListsLaterCopies(quality_report, df)

-----------------------------------------------------------------------------
(* Unification of several sources: SpecUnify *)

ApiRecords == [a : {"1", "x"}, b : {"x"}]

CsvRecords == [b : {"x"}, c : {"1", "x"}]

\* api_data_*.json: absent, not JSON, a JSON array, or an object whose
\* "data" key lists the records
ApiArtifacts ==
    {[kind |-> k, records |-> <<>>] : k \in {"absent", "malformed", "array"}}
    \cup {[kind |-> "object", records |-> r] :
             r \in SeqsUpTo(ApiRecords, MaxRows)}

\* user_upload_*.csv: absent, unreadable, or its data rows
CsvArtifacts ==
    {NoFile, Unreadable}
    \cup {[records |-> r] : r \in SeqsUpTo(CsvRecords, MaxRows)}

InitUnify ==
    /\ InitParked
    /\ pc = "u_ready"
    /\ df \in [api : ApiArtifacts, upload : CsvArtifacts]
    /\ df2 = NoFile
    /\ feedback = None
    /\ now = 0

\* unify_to_parquet() with no filter: every parser runs
UnifyAll ==
    /\ pc = "u_ready"
    /\ df2' = unify_store(df, "all")
    /\ last_step' = "all"
    /\ pc' = "u_done"
    /\ UNCHANGED <<source_type, upload, rawStore, unified, cleaned, cleanedCsv,
                   quality_report, result, trace, df, feedback, now>>

\* unify_to_parquet(source_filter=k): one parser runs
UnifyOnly ==
    /\ pc = "u_ready"
    /\ \E k \in {"api", "upload"} :
          /\ df2' = unify_store(df, k)
          /\ last_step' = k
    /\ pc' = "u_done"
    /\ UNCHANGED <<source_type, upload, rawStore, unified, cleaned, cleanedCsv,
                   quality_report, result, trace, df, feedback, now>>

NextUnify == UnifyAll \/ UnifyOnly

SpecUnify == InitUnify /\ [][NextUnify]_vars

\* unify_to_parquet wrote a table
Unified == pc = "u_done" /\ df2 # Raised /\ df2 # None

\* the record sequences the parsers that ran returned, source by source
FromApi ==
    IF last_step \in {"all", "api"} THEN parse_api_json(df.api) ELSE <<>>

FromCsv ==
    IF last_step \in {"all", "upload"} THEN parse_user_csv(df.upload) ELSE <<>>

\* row i of the unified table, counted from 1, and the record it comes from
RecordOf(i) ==
    IF i <= Len(FromApi) THEN FromApi[i] ELSE FromCsv[i - Len(FromApi)]

UnionOfColumns ==
    UNION ({DOMAIN FromApi[i] : i \in 1..Len(FromApi)}
           \cup {DOMAIN FromCsv[i] : i \in 1..Len(FromCsv)})

\* row count, source order and column union
UnifiedShape ==
    /\ Len(df2.rows) = Len(FromApi) + Len(FromCsv)
    /\ df2.cols = UnionOfColumns
    /\ \A i \in 1..Len(df2.rows) : \A c \in DOMAIN RecordOf(i) :
          df2.rows[i][c] = RecordOf(i)[c]

\* C14: the unified table has as many rows as the sequences have records,
\* in the order of the sources, its columns are the union of the records'
\* columns, and a cell a record lacks is null in the table written.
C14_UnifyFillsAbsentWithNull ==
    Unified =>
        /\ UnifiedShape
        /\ \A i \in 1..Len(df2.rows) :
              \A c \in df2.cols \ DOMAIN RecordOf(i) : df2.rows[i][c] = NA

\* the part of C14 about rows, order and columns alone
C14_ShapeOnly == Unified => UnifiedShape

\* C15: no parser raises whatever its artifact holds, and the records of
\* the sources that parse are unified when another source fails to parse.
C15_ParsersAbsorbFailures ==
    pc = "u_done" =>
        /\ df2 # Raised
        /\ (last_step = "all" /\ Len(parse_user_csv(df.upload)) > 0) =>
              /\ df2 # None
              /\ \E k \in 0..MaxRows : \A i \in 1..Len(parse_user_csv(df.upload)) :
                    \A c \in DOMAIN parse_user_csv(df.upload)[i] :
                       /\ k + i <= Len(df2.rows)
                       /\ df2.rows[k + i][c] = parse_user_csv(df.upload)[i][c]

-----------------------------------------------------------------------------
(* The step an error report names, under Spec *)

\* the step each stage belongs to
StepOf(name) ==
    CASE name = "ingest"               -> "Ingestion"
      [] name = "unify"                -> "Unification"
      [] name = "run_remediation"      -> "Remediation"
      [] name = "targeted_remediation" -> "Remediation"
      [] OTHER                         -> "Validation"

\* the stage calls of lines 57-129 that raised
RaisedCalls ==
    {i \in 1..Len(trace) :
        /\ ~trace[i].ok
        /\ trace[i].call \in Stages \ {"purge_raw_files"}}

\* C16: the error report returned after a stage raised names the step that
\* was executing, and a failure of the targeted pass is attributed to
\* remediation.
C16_ErrorReportNamesStep ==
    \A i \in RaisedCalls :
        /\ pc = "done"
        /\ trace[i].step = StepOf(trace[i].call)
        /\ \/ result.status = StepOf(trace[i].call)
           \/ result.error = StepOf(trace[i].call)

\* the step named in the log, for the stages other than the targeted pass
C16_LoggedStepExceptTargeted ==
    \A i \in RaisedCalls :
        trace[i].call # "targeted_remediation" =>
            trace[i].step = StepOf(trace[i].call)

-----------------------------------------------------------------------------
(* The unified file at the start of bulk remediation, under Spec *)

\* bulk remediation ran and found the unified file missing or unreadable
UnifiedUnavailable ==
    /\ pc = "done"
    /\ \E i \in Calls("run_remediation") : i = Len(trace)
    /\ unified \in {NoFile, Unreadable}

\* C17: when bulk remediation starts and the unified file is missing or is
\* present but unreadable, run_pipeline returns the status
\* "Remediation Failed", not "Error".
C17_UnavailableUnifiedIsRemediationFailed ==
    UnifiedUnavailable => result.status = "Remediation Failed"

\* the same statement for a missing file alone
C17_MissingOnly ==
    (UnifiedUnavailable /\ unified = NoFile)
        => result.status = "Remediation Failed"

-----------------------------------------------------------------------------
(* Runs that follow one another on the same directories: SpecRuns.         *)
(* rawStore lists the files of data/raw from the oldest to the newest, and *)
(* every file carries the number of the run that wrote it.                 *)

RunCells == [a : {"1", "x"}]

RunUploads ==
    {NoFile} \cup {[records |-> r] : r \in SeqsUpTo(RunCells, MaxRunRows)}

\* the subsequence of files at the positions kept
Surviving(files, kept) == SelectIdx(files, kept, 1)

InitRuns ==
    /\ pc = "r_idle"
    /\ now = 0
    /\ source_type = "upload"
    /\ upload = NoFile
    /\ last_step = "Unknown"
    /\ rawStore = <<>>
    /\ unified = NoFile
    /\ cleaned = NoFile
    /\ cleanedCsv = NoFile
    /\ quality_report = None
    /\ result = None
    /\ trace = <<>>
    /\ df = NoFile
    /\ df2 = NoFile
    /\ feedback = None

\* main.py:13-29, 44-46: run_pipeline is called and purge_old_results
\* removes what os.remove can remove; a removal that raises is passed over
StartRun ==
    /\ pc = "r_idle"
    /\ now < MaxRuns
    /\ now' = now + 1
    /\ upload' \in RunUploads
    /\ \E listing_fails \in BOOLEAN :
        IF listing_fails
        THEN /\ result' = Raised
             /\ pc' = "r_idle"
             /\ UNCHANGED <<rawStore, unified, cleaned, cleanedCsv>>
        ELSE /\ \E kept \in SUBSET (1..Len(rawStore)) :
                    rawStore' = Surviving(rawStore, kept)
             /\ unified' \in {NoFile, unified}
             /\ cleaned' \in {NoFile, cleaned}
             /\ cleanedCsv' = cleaned'
             /\ result' = None
             /\ pc' = "r_ingest"
    /\ UNCHANGED <<source_type, last_step, quality_report, trace, df, df2,
                   feedback>>

\* main.py:58-91 and scraper.py:21-31: the artifact is written with the
\* current time, so it is the newest file of data/raw
IngestRun ==
    /\ pc = "r_ingest"
    /\ LET raw_path == handle_user_upload(upload)
       IN  IF raw_path = None
           THEN /\ result' = NoDataReturn
                /\ pc' = "r_idle"
                /\ UNCHANGED rawStore
           ELSE /\ rawStore' = Append(rawStore, [run |-> now, file |-> raw_path])
                /\ pc' = "r_unify"
                /\ UNCHANGED result
    /\ UNCHANGED <<source_type, upload, last_step, unified, cleaned, cleanedCsv,
                   quality_report, trace, df, df2, feedback, now>>

\* converter.py:32-42: the file of the prefix with the greatest mtime
\* (called only when data/raw holds one)
get_latest_file(files) == files[Len(files)]

\* main.py:93-100
UnifyRun ==
    /\ pc = "r_unify"
    /\ LET latest == get_latest_file(rawStore)
           hub_path == unify_to_parquet(latest.file)
       IN  IF hub_path = None
           THEN /\ result' = FailedReturn("Unification Failed")
                /\ pc' = "r_idle"
                /\ UNCHANGED unified
           ELSE /\ unified' = [run |-> latest.run, table |-> hub_path]
                /\ pc' = "r_remediate"
                /\ UNCHANGED result
    /\ UNCHANGED <<source_type, upload, last_step, rawStore, cleaned, cleanedCsv,
                   quality_report, trace, df, df2, feedback, now>>

\* main.py:102-109
RemediateRun ==
    /\ pc = "r_remediate"
    /\ cleaned' = [run |-> unified.run, table |-> BulkPass(unified.table)]
    /\ cleanedCsv' = cleaned'
    /\ pc' = "r_score"
    /\ UNCHANGED <<source_type, upload, last_step, rawStore, unified,
                   quality_report, result, trace, df, df2, feedback, now>>

\* main.py:111-143: the initial score, the feedback pass when it is due, the
\* purge of data/raw and the return of the report
FinishRun ==
    /\ pc = "r_score"
    /\ LET first == validate(cleaned.table)
           again == NeedsFeedback(first)
           table == IF again THEN targeted_remediation(cleaned.table, first)
                             ELSE cleaned.table
           final == IF again THEN validate(table) ELSE first
       IN  /\ cleaned' = [run |-> cleaned.run, table |-> table]
           /\ quality_report' = final
           /\ \E outcome \in PurgeOutcomes :
                 /\ \E kept \in SUBSET (1..Len(rawStore)) :
                       /\ outcome = "erased" => kept = {}
                       /\ outcome = "remove_fails" => kept # {}
                       /\ outcome = "listdir_fails" => kept = 1..Len(rawStore)
                       /\ rawStore' = Surviving(rawStore, kept)
                 /\ result' = IF outcome = "listdir_fails" THEN ErrorReport
                                                           ELSE final
    /\ pc' = "r_idle"
    /\ UNCHANGED <<source_type, upload, last_step, unified, cleanedCsv, trace,
                   df, df2, feedback, now>>

NextRuns == StartRun \/ IngestRun \/ UnifyRun \/ RemediateRun \/ FinishRun

SpecRuns == InitRuns /\ [][NextRuns]_vars

\* a run is between its purge_old_results and its return
InRun == pc \in {"r_ingest", "r_unify", "r_remediate", "r_score"}

\* the unified and the cleaned table a run works on were written from the
\* artifact that this run ingested
TablesFromThisRun ==
    /\ pc \in {"r_remediate", "r_score"} => unified.run = now
    /\ pc = "r_score" => cleaned.run = now

\* C18: each run starts from a purged raw store and purged processed
\* files, and its unified and cleaned tables come from the artifact it
\* ingested itself: during a run no file left by an earlier run is present.
C18_RunStartsPurged ==
    InRun =>
        /\ \A i \in 1..Len(rawStore) : rawStore[i].run = now
        /\ unified = NoFile \/ unified.run = now
        /\ cleaned = NoFile \/ cleaned.run = now
        /\ TablesFromThisRun

\* the part of C18 about the tables of a run alone, for an artifact written
\* with the current time
C18_TablesFromThisRun == InRun => TablesFromThisRun

-----------------------------------------------------------------------------
(* run_pipeline of src/main.py and its callers: SpecLegacyRun *)

\* a keyword argument the caller leaves out
Omitted == "<omitted>"

DateArgs == {Omitted, "", "2026-01-01", "2026-01-02"}

\* what the operator types at a prompt
InputLines == {"", "2026-02-01"}

InitLegacyRun ==
    /\ pc = "lr_call"
    /\ upload \in [start_date : DateArgs, end_date : DateArgs]
    /\ source_type = "api"
    /\ last_step = "Unknown"
    /\ rawStore = NoFile
    /\ unified = NoFile
    /\ cleaned = NoFile
    /\ cleanedCsv = NoFile
    /\ quality_report = None
    /\ result = None
    /\ trace = <<>>
    /\ df = NoFile
    /\ df2 = NoFile
    /\ feedback = None
    /\ now = 0

\* src/main.py:11: def run_pipeline() declares no parameter, so a call that
\* passes a keyword argument raises TypeError before the body runs
CallLegacy ==
    /\ pc = "lr_call"
    /\ IF upload.start_date # Omitted \/ upload.end_date # Omitted
       THEN result' = Raised /\ pc' = "lr_done" /\ last_step' = "TypeError"
       ELSE UNCHANGED result /\ pc' = "lr_prompt_start" /\ UNCHANGED last_step
    /\ UNCHANGED <<source_type, upload, rawStore, unified, cleaned, cleanedCsv,
                   quality_report, trace, df, df2, feedback, now>>

\* src/main.py:24: input() returns when the operator has typed a line
ReadStart ==
    /\ pc = "lr_prompt_start"
    /\ \E line \in InputLines :
          feedback' = [user_start |-> line, user_end |-> Omitted]
    /\ pc' = "lr_prompt_end"
    /\ UNCHANGED <<source_type, upload, last_step, rawStore, unified, cleaned,
                   cleanedCsv, quality_report, result, trace, df, df2, now>>

\* src/main.py:25
ReadEnd ==
    /\ pc = "lr_prompt_end"
    /\ \E line \in InputLines :
          feedback' = [feedback EXCEPT !.user_end = line]
    /\ pc' = "lr_ingest"
    /\ UNCHANGED <<source_type, upload, last_step, rawStore, unified, cleaned,
                   cleanedCsv, quality_report, result, trace, df, df2, now>>

\* src/main.py:32-37: the two fetches; the run is aborted when neither
\* returns a raw file
IngestLegacy ==
    /\ pc = "lr_ingest"
    /\ \E raw_api \in BOOLEAN, raw_city \in BOOLEAN :
          IF ~raw_api /\ ~raw_city
          THEN pc' = "lr_done" /\ last_step' = "aborted"
          ELSE pc' = "lr_stages" /\ UNCHANGED last_step
    /\ UNCHANGED <<source_type, upload, rawStore, unified, cleaned, cleanedCsv,
                   quality_report, result, trace, df, df2, feedback, now>>

\* src/main.py:39-78: unification and remediation leave a cleaned file;
\* it is scored, the feedback pass runs when it is due, and every
\* exception is printed by the except clause; nothing is returned
StagesLegacy ==
    /\ pc = "lr_stages"
    /\ \E t \in LegacyTables :
          LET first == legacy_validate(t, now)
              again == first # None /\ first.overall_trustability < Threshold
              fixed == IF again THEN legacy_targeted_remediation(t, first)
                                ELSE t
              final == IF again /\ fixed # Raised
                       THEN legacy_validate(fixed, now) ELSE first
          IN  /\ df' = t
              /\ cleanedCsv' = IF fixed = Raised THEN t ELSE fixed
              /\ quality_report' = final
              /\ last_step' = IF first = None \/ fixed = Raised \/ final = None
                               THEN "failed" ELSE "finished"
    /\ pc' = "lr_done"
    /\ UNCHANGED <<source_type, upload, rawStore, unified, cleaned, result,
                   trace, df2, feedback, now>>

NextLegacyRun ==
    CallLegacy \/ ReadStart \/ ReadEnd \/ IngestLegacy \/ StagesLegacy

SpecLegacyRun == InitLegacyRun /\ [][NextLegacyRun]_vars

\* the caller passed both dates
ExplicitDates ==
    /\ pc \in {"lr_call", "lr_prompt_start", "lr_prompt_end", "lr_ingest",
                "lr_stages", "lr_done"}
    /\ upload.start_date \notin {Omitted, ""}
    /\ upload.end_date \notin {Omitted, ""}

\* C19: run_pipeline called with explicit start_date and end_date accepts
\* them and reaches a terminal outcome without waiting for interactive
\* input.
C19_ExplicitDatesNeedNoInput ==
    ExplicitDates =>
        /\ pc \notin {"lr_prompt_start", "lr_prompt_end"}
        /\ pc = "lr_done" => result # Raised

-----------------------------------------------------------------------------
(* The text heuristics of parse_other_upload: SpecSense.                   *)
(* A text file is described by what the heuristics read of it: how often   *)
(* each delimiter occurs in its first 2048 characters (head) and after     *)
(* them (rest), and how many distinct key-value labels the lines of the    *)
(* head carry.                                                             *)

\* converter.py:281, in the order of the list; TAB is the tabulator
delims == <<",", ";", "|", "TAB">>

\* converter.py:284
DelimThreshold == 10

\* converter.py:305
KvThreshold == 3

CountChoices == {0, DelimThreshold, DelimThreshold + 1, DelimThreshold + 2}

TextFiles ==
    [head : [{",", ";", "|", "TAB"} -> CountChoices],
     rest : [{",", ";", "|", "TAB"} -> {0, DelimThreshold + 1}],
     labels : {0, KvThreshold - 1, KvThreshold}]

\* the delimiter with the greatest count among those over the threshold
found_delim_MostFrequent(head) ==
    LET over == {d \in DOMAIN head : head[d] > DelimThreshold}
    IN  IF over = {} THEN None
        ELSE [delim |-> CHOOSE d \in over : \A e \in over : head[e] <= head[d]]

RECURSIVE FirstOver(_, _)
FirstOver(head, k) ==
    IF k > Len(delims) THEN None
    ELSE IF head[delims[k]] > DelimThreshold THEN [delim |-> delims[k]]
    ELSE FirstOver(head, k + 1)

\* converter.py:282-286
found_delim(head) == FirstOver(head, 1)

\* converter.py:276-317: the format the sensor settles on
sense(file) ==
    LET found == found_delim(file.head)
    IN  IF found # None
        THEN [source |-> "Universal_Heuristic", delim |-> found.delim]
        ELSE IF file.labels >= KvThreshold
        THEN [source |-> "Universal_Heuristic_KV", delim |-> "none"]
        ELSE [source |-> "Universal_Heuristic_Text", delim |-> "none"]

InitSense ==
    /\ InitParked
    /\ pc = "f_ready"
    /\ df \in TextFiles
    /\ df2 = NoFile
    /\ feedback = None
    /\ now = 0

Sense ==
    /\ pc = "f_ready"
    /\ df2' = sense(df)
    /\ pc' = "f_sensed"
    /\ UNCHANGED <<Parked, df, feedback, now>>

NextSense == Sense

SpecSense == InitSense /\ [][NextSense]_vars

\* the delimiters listed before d
ListedBefore(d) ==
    CASE d = "," -> {}
      [] d = ";" -> {","}
      [] d = "|" -> {",", ";"}
      [] d = "TAB" -> {",", ";", "|"}

\* the delimiters that occur more than 10 times in the first 2048
\* characters
Frequent == {d \in {",", ";", "|", "TAB"} : df.head[d] > 10}

Delimited == df2.source = "Universal_Heuristic"

\* C20: a text sample is classified as a delimited table iff some delimiter
\* among ',', ';', '|', TAB occurs more than 10 times in its first 2048
\* characters; the delimiter used is the first in that order whose count
\* exceeds 10; and 3 or more key-value labels do not change this.
C20_DelimiterSensing ==
    pc = "f_sensed" =>
        /\ Delimited <=> Frequent # {}
        /\ Delimited =>
              /\ df2.delim \in Frequent
              /\ ListedBefore(df2.delim) \cap Frequent = {}
        /\ (Frequent # {} /\ df.labels >= 3) => Delimited

C20_Witness ==
    /\ pc = "f_sensed"
    /\ Delimited
    /\ df.labels >= 3
    /\ df2.delim = ","
    /\ df.head[";"] > df.head[","]
    /\ df.rest["|"] > 10

-----------------------------------------------------------------------------
(* Numeric coercion in the bulk pass, under SpecBulk *)

\* the table as step 3 of generic_cleanup finds it: cleaner.py:37-46 done
BeforeCoercion(t) == NormalizeStrings(DropEmpty(t))

\* the cells of column c that pd.to_numeric converts
Coercible(t, c) == {i \in 1..Len(t.rows) : ToNumeric(t.rows[i][c]) # NA}

\* every cell of a numeric column of the result is a number or null
FailuresBecomeNull ==
    \A c \in df2.num : \A i \in 1..Len(df2.rows) :
        df2.rows[i][c] \in Numerals \cup {NA}

\* C21: a non-lineage column is replaced by its numeric coercion exactly
\* when coercion succeeds on more than 80% of the column's non-null values
\* (not of the rows), and the values that fail coercion in a replaced
\* column become null.
C21_CoercionOverNonNull ==
    pc = "b_once" =>
        /\ \A c \in BeforeCoercion(df).cols \ MetaCols :
              c \in df2.num <=>
                  10 * Cardinality(Coercible(BeforeCoercion(df), c))
                      > 8 * Cardinality(NonNull(BeforeCoercion(df), c))
        /\ FailuresBecomeNull

\* the rule of cleaner.py:54: more than 80% of the rows of the table
C21_CoercionOverRows ==
    pc = "b_once" =>
        /\ \A c \in BeforeCoercion(df).cols \ MetaCols :
              c \in df2.num <=>
                  10 * Cardinality(Coercible(BeforeCoercion(df), c))
                      > 8 * Len(BeforeCoercion(df).rows)
        /\ FailuresBecomeNull

-----------------------------------------------------------------------------
(* Extraction of rows from a page and from an API response: SpecExtract.   *)
(* A cell text is a number: 0 is the empty text, and the text i > 0 occurs *)
(* in row i of its source only, so that a record names the row it is from. *)

\* converter.py:449, 469
HtmlLimit == 100

\* converter.py:460
MinListItems == 5

\* scraper.py:106
ApiLimit == 15

\* s[:n]
Take(s, n) == SubSeq(s, 1, IF n < Len(s) THEN n ELSE Len(s))

\* a <tr> of the page: a cell with text, empty cells only, text in the
\* second cell only, or no <td> at all
RowShapes == {"full", "blank", "second", "nocells"}

RowOf(shape, i) ==
    CASE shape = "full"    -> <<i>>
      [] shape = "blank"   -> <<0, 0>>
      [] shape = "second"  -> <<0, i>>
      [] shape = "nocells" -> <<>>

\* n rows, all with text in their first cell but the one at position at
RowsWith(n, shape, at) ==
    [i \in 1..n |-> IF i = at THEN RowOf(shape, i) ELSE RowOf("full", i)]

\* the <li> texts of the one list of the page; the item at position at is
\* empty when blank
ItemsWith(m, blank, at) ==
    [j \in 1..m |-> IF blank /\ j = at THEN 0 ELSE j]

RowCounts == {0, 1, HtmlLimit, HtmlLimit + 1}

ItemCounts == {0, MinListItems - 1, MinListItems, HtmlLimit + 1}

\* a scraped page: the number of header cells of its table, the data rows
\* that follow the header row, and the items of its list
HtmlPages ==
    {[type |-> "html", headers |-> h, rows |-> RowsWith(n, shape, at),
      items |-> ItemsWith(m, blank, 1)] :
        h \in {1, 2}, n \in RowCounts, shape \in RowShapes, at \in {1, HtmlLimit + 1},
        m \in ItemCounts, blank \in BOOLEAN}

\* where the date field of an API record falls: the record has none, it is
\* inside or outside the window asked for, or it is not an ISO date
DateKinds == {"none", "inside", "outside", "bad"}

ApiCounts == {0, 1, ApiLimit, ApiLimit + 1}

\* the list an API answers with; record i holds the value i
ApiResponses ==
    {[type |-> "api",
      records |-> [i \in 1..n |-> [value |-> i,
                                   date |-> IF i = 1 THEN d ELSE "none"]]] :
        n \in ApiCounts, d \in DateKinds}

\* converter.py:454-469
parse_city_html_fallback(page) ==
    LET HasText(text) == text # 0
        texts == SelectSeq(page.items, HasText)
    IN  IF Len(page.items) < MinListItems THEN <<>>
        ELSE Take([k \in 1..Len(texts) |->
                      [keys |-> "Item_Content", cells |-> <<texts[k]>>,
                       source |-> "Web_Scrape", ingested_at |-> "t0"]],
                  HtmlLimit)

\* converter.py:436-439: the cells under a header
EntryCells(page, row) ==
    SubSeq(row, 1, IF page.headers < Len(row) THEN page.headers ELSE Len(row))

\* converter.py:433-434, 441: the row has cells and an entry value is not
\* empty
EntryKept(page, row) ==
    /\ Len(row) > 0
    /\ \E c \in 1..Len(EntryCells(page, row)) : EntryCells(page, row)[c] # 0

\* converter.py:410-452 on a page with one table
parse_city_html(page) ==
    LET Kept(row) == EntryKept(page, row)
        kept == SelectSeq(page.rows, Kept)
        standardized ==
            [k \in 1..Len(kept) |->
                [keys |-> "headers", cells |-> EntryCells(page, kept[k]),
                 source |-> "Web_Scrape", ingested_at |-> "t0"]]
    IN  IF standardized = <<>> THEN parse_city_html_fallback(page)
        ELSE Take(standardized, HtmlLimit)

\* scraper.py:84-101: the record passes the date filter
PassesDates(r) == r.date \in {"none", "inside", "bad"}

\* scraper.py:64-110 on a list response: the records saved as the raw
\* artifact
fetch_api_data(response, dated) ==
    IF dated
    THEN SelectSeq(response.records, PassesDates)
    ELSE Take(response.records, ApiLimit)

InitExtract ==
    /\ InitParked
    /\ pc = "x_ready"
    /\ df \in HtmlPages \cup ApiResponses
    /\ df2 = NoFile
    /\ feedback = None
    /\ now = 0

ParseCityHtml ==
    /\ pc = "x_ready"
    /\ df.type = "html"
    /\ df2' = parse_city_html(df)
    /\ pc' = "x_parsed"
    /\ UNCHANGED <<Parked, df, feedback, now>>

\* fetch_api_data with or without start_date and end_date
FetchApiData ==
    /\ pc = "x_ready"
    /\ df.type = "api"
    /\ \E dated \in BOOLEAN :
          /\ feedback' = [dated |-> dated]
          /\ df2' = fetch_api_data(df, dated)
    /\ pc' = "x_fetched"
    /\ UNCHANGED <<Parked, df, now>>

NextExtract == ParseCityHtml \/ FetchApiData

SpecExtract == InitExtract /\ [][NextExtract]_vars

\* the table rows of a page that hold a text; the items of its list that
\* hold one, for a page whose table has no row
RowsWithValue ==
    {i \in 1..Len(df.rows) : \E c \in 1..Len(df.rows[i]) : df.rows[i][c] # 0}

ItemsWithValue ==
    IF Len(df.rows) = 0
    THEN {j \in 1..Len(df.items) : df.items[j] # 0} ELSE {}

\* the extracted sequence holds a record made from the text v
Extracted(keys, v) ==
    \E k \in 1..Len(df2) : /\ df2[k].keys = keys
                           /\ \E c \in 1..Len(df2[k].cells) : df2[k].cells[c] = v

\* the records of the response that the date window asked for admits
Requested ==
    {i \in 1..Len(df.records) : feedback.dated => PassesDates(df.records[i])}

\* C22: no ingestion or extraction routine drops a source row that holds
\* at least one non-null value, however many rows the source has.
C22_NoRowWithValueDropped ==
    /\ pc = "x_parsed" =>
          /\ \A i \in RowsWithValue : Extracted("headers", i)
          /\ \A j \in ItemsWithValue : Extracted("Item_Content", j)
    /\ pc = "x_fetched" =>
          \A i \in Requested : \E k \in 1..Len(df2) : df2[k] = df.records[i]

\* the same for sources within the limits of the routines: a table of at
\* most 100 rows whose cells all stand under a header, a list of 5 to 100
\* items, a response of at most 15 records
WithinLimits ==
    IF df.type = "html"
    THEN /\ Len(df.rows) <= HtmlLimit
         /\ \A i \in 1..Len(df.rows) : Len(df.rows[i]) <= df.headers
         /\ Len(df.rows) = 0 =>
               Len(df.items) \in {0} \cup (MinListItems..HtmlLimit)
    ELSE Len(df.records) <= ApiLimit

C22_WithinLimits == WithinLimits => C22_NoRowWithValueDropped

-----------------------------------------------------------------------------
(* run_remediation on the files it finds: SpecRemediation.                 *)
(* unified is raw_structured.parquet as the call finds it, cleaned and     *)
(* cleanedCsv are the files a previous call left; result is what the call  *)
(* returned.                                                               *)

\* df.empty: no row or no column
Empty(t) == Len(t.rows) = 0 \/ t.cols = {}

\* self.output_file, the path a successful call returns
CleanedPath == [path |-> "cleaned_data.parquet"]

\* the call aborts on a missing file only
run_remediation_GuardsMissingOnly(found, old) ==
    LET loaded == load_data(found)
    IN  IF loaded = Raised
        THEN [ret |-> Raised, parquet |-> old.parquet, csv |-> old.csv]
        ELSE IF loaded = None
        THEN [ret |-> None, parquet |-> old.parquet, csv |-> old.csv]
        ELSE [ret |-> CleanedPath, parquet |-> BulkPass(loaded),
              csv |-> BulkPass(loaded)]

\* cleaner.py:102-128: what the call returns and the two files it leaves
run_remediation(found, old) ==
    LET loaded == load_data(found)
    IN  IF loaded = Raised
        THEN [ret |-> Raised, parquet |-> old.parquet, csv |-> old.csv]
        ELSE IF loaded = None \/ Empty(loaded)
        THEN [ret |-> None, parquet |-> old.parquet, csv |-> old.csv]
        ELSE [ret |-> CleanedPath, parquet |-> BulkPass(loaded),
              csv |-> BulkPass(loaded)]

UnifiedCells == [a : {NA, "1", "x"}, source : {NA, "User_Upload"}]

\* raw_structured.parquet: missing, unreadable, or a table of any content
UnifiedFiles ==
    {NoFile, Unreadable}
    \cup {[cols |-> {"a", "source"}, num |-> {}, rows |-> r] :
             r \in SeqsUpTo(UnifiedCells, MaxRows)}

\* a cleaned table left by an earlier call
OldCleaned ==
    [cols |-> {"a", "remediation_notes"}, num |-> {},
     rows |-> <<[a |-> "old", remediation_notes |-> ""]>>]

InitRemediation ==
    /\ pc = "m_ready"
    /\ unified \in UnifiedFiles
    /\ cleaned \in {NoFile, OldCleaned}
    /\ cleanedCsv \in {NoFile, OldCleaned}
    /\ source_type = "upload"
    /\ upload = NoFile
    /\ last_step = "Unknown"
    /\ rawStore = NoFile
    /\ quality_report = None
    /\ result = None
    /\ trace = <<>>
    /\ df = NoFile
    /\ df2 = NoFile
    /\ feedback = None
    /\ now = 0

\* cleaner.run_remediation(); df and df2 keep the two files as they were
RunRemediation ==
    /\ pc = "m_ready"
    /\ LET out == run_remediation(unified, [parquet |-> cleaned,
                                            csv |-> cleanedCsv])
       IN  /\ result' = out.ret
           /\ cleaned' = out.parquet
           /\ cleanedCsv' = out.csv
    /\ df' = cleaned
    /\ df2' = cleanedCsv
    /\ pc' = "m_returned"
    /\ UNCHANGED <<source_type, upload, last_step, rawStore, unified,
                   quality_report, trace, feedback, now>>

NextRemediation == RunRemediation

SpecRemediation == InitRemediation /\ [][NextRemediation]_vars

\* the unified table is missing or has no row
NoInput == unified = NoFile \/ (unified # Unreadable /\ Empty(unified))

\* the unified table has rows and cleaning removes every one of them
AllRowsRemoved ==
    /\ unified \notin {NoFile, Unreadable}
    /\ ~Empty(unified)
    /\ \A i \in 1..Len(unified.rows) : \A c \in unified.cols :
          unified.rows[i][c] = NA

\* C23: when run_remediation finds the unified table missing or empty it
\* returns the no-input outcome and leaves the cleaned file and its CSV
\* mirror exactly as they were; a non-empty input whose rows are all
\* removed by cleaning still writes a zero-row cleaned table and returns
\* its path.
C23_NoInputWritesNothing ==
    pc = "m_returned" =>
        /\ NoInput => /\ result = None
                      /\ cleaned = df
                      /\ cleanedCsv = df2
        /\ AllRowsRemoved => /\ result = CleanedPath
                             /\ cleaned # NoFile
                             /\ Len(cleaned.rows) = 0
                             /\ cleanedCsv = cleaned

C23_Witness ==
    /\ pc = "m_returned"
    /\ unified \notin {NoFile, Unreadable}
    /\ Len(unified.rows) = 0
    /\ result = None
    /\ cleaned = OldCleaned
    /\ cleanedCsv = OldCleaned

-----------------------------------------------------------------------------
(* Duplicate rows of the cleaned table, under Spec *)

\* the rows of the unified table as deduplication finds them
BeforeDedup == handle_missing_values(generic_cleanup(unified)).rows

\* the positions of the rows that no earlier row equals
FirstOccurrences(rows) ==
    {i \in 1..Len(rows) : \A j \in 1..(i - 1) : rows[j] # rows[i]}

NoTwoRowsIdentical(t) ==
    \A i, j \in 1..Len(t.rows) : i # j => t.rows[i] # t.rows[j]

\* the position in BeforeDedup of the first row equal to r
FirstAt(r) ==
    CHOOSE i \in FirstOccurrences(BeforeDedup) : BeforeDedup[i] = r

\* every row of the cleaned table is a first occurrence, in the order of
\* the input
KeepsOrder(t) ==
    /\ \A k \in 1..Len(t.rows) :
          \E i \in FirstOccurrences(BeforeDedup) : BeforeDedup[i] = t.rows[k]
    /\ \A k, l \in 1..Len(t.rows) :
          k < l => FirstAt(t.rows[k]) < FirstAt(t.rows[l])

\* C24: in the cleaned table the bulk pass persists, and in the table left
\* after a later targeted pass, no two rows are identical across all
\* columns; of each group of identical rows the bulk pass keeps the first
\* occurrence, and the surviving rows keep their relative order.
C24_CleanedHasNoDuplicateRows ==
    cleaned # NoFile =>
        /\ NoTwoRowsIdentical(cleaned)
        /\ KeepsOrder(cleaned)
        /\ pc = "validate" =>
              cleaned.rows = SelectIdx(BeforeDedup,
                                       FirstOccurrences(BeforeDedup), 1)

C24_Witness ==
    /\ Succeeded
    /\ Len(unified.rows) = 3
    /\ unified.rows[1] = unified.rows[3]
    /\ unified.rows[1] # unified.rows[2]
    /\ Len(cleaned.rows) = 2

-----------------------------------------------------------------------------
(* What the feedback pass can change, under Spec *)

\* the report lists no row
ListsNothing(r) ==
    /\ r.issue_metadata.duplicate_indices = <<>>
    /\ r.issue_metadata.integrity_fail_indices = <<>>

\* the targeted pass returned
TargetedPassDone ==
    \E i \in Calls("targeted_remediation") : trace[i].ok

\* C25: every report scored after a successful bulk pass has empty
\* duplicate_indices and integrity_fail_indices, so when the feedback edge
\* is taken the targeted pass removes no row and the report scored after
\* it equals the initial report.
C25_FeedbackLoopIsInert ==
    /\ \A i \in ScoreCalls : ListsNothing(trace[i].ret)
    /\ TargetedPassDone => cleaned = BulkPass(unified)
    /\ ScoreCalls # {} => FinalReport = InitialReport

C25_Witness ==
    /\ Succeeded
    /\ TargetedPassDone
    /\ Cardinality(ScoreCalls) = 2
    /\ InitialReport.overall_trustability < Threshold
    /\ result = InitialReport
    /\ Len(cleaned.rows) < Len(unified.rows)

-----------------------------------------------------------------------------
(* The CSV mirror of the cleaned table, under Spec *)

\* C26: at every terminal state of a run the cleaned table's columnar file
\* and its CSV mirror hold the same rows, also after a targeted pass.
C26_MirrorHoldsSameRows == pc = "done" => cleanedCsv = cleaned

\* the same for the runs that still have the columnar file and in which
\* run_remediation did not raise: the targeted pass of such a run rewrites
\* the columnar file alone, with the rows it already held
C26_MirrorUnlessRemediationRaised ==
    (pc = "done" /\ cleaned # NoFile /\ ~StageFailed("run_remediation"))
        => cleanedCsv = cleaned

-----------------------------------------------------------------------------
(* Two calls of run_pipeline on the same directories: SpecConcurrent.      *)
(* pc, upload, quality_report and result hold one value per call; feedback *)
(* holds, per call, the number of the call whose upload the table it last  *)
(* scored was made from (0 before it scored); rawStore, unified and        *)
(* cleaned are the shared files, each marked with the call that wrote it;  *)
(* df tells whether the caller lets one call finish before the next.       *)

Calls2 == {1, 2}

Other(r) == 3 - r

\* the call r is the only one between its start and its return
Alone(r) == pc[Other(r)] \in {"c_start", "c_done"}

MayStep_Unguarded(r) == TRUE

\* backend/app.py:133 calls run_pipeline from the request handler: a caller
\* that serializes lets a call step only while the other is outside
MayStep(r) == df.serialized => Alone(r)

\* the cells of an uploaded row: a number or nothing, a text or nothing
ConcurrentCells == [a : {"1", ""}, b : {"x", ""}]

ConcurrentUploads ==
    {NoFile} \cup {[records |-> r] : r \in SeqsUpTo(ConcurrentCells, MaxRunRows)}

InitConcurrent ==
    /\ pc = [r \in Calls2 |-> "c_start"]
    /\ upload \in [Calls2 -> ConcurrentUploads]
    /\ quality_report = [r \in Calls2 |-> None]
    /\ result = [r \in Calls2 |-> None]
    /\ feedback = [r \in Calls2 |-> 0]
    /\ df \in [serialized : BOOLEAN]
    /\ rawStore = <<>>
    /\ unified = NoFile
    /\ cleaned = NoFile
    /\ cleanedCsv = NoFile
    /\ source_type = "upload"
    /\ last_step = "Unknown"
    /\ trace = <<>>
    /\ df2 = NoFile
    /\ now = 0

Untouched == <<source_type, upload, last_step, trace, df, df2, now>>

\* the call r moves to position p
Goto(r, p) == pc' = [pc EXCEPT ![r] = p]

\* the call r returns the report rep
Returns(r, rep) ==
    /\ result' = [result EXCEPT ![r] = rep]
    /\ Goto(r, "c_done")

\* main.py:46
CPurgeOld ==
    \E r \in Calls2 :
        /\ pc[r] = "c_start"
        /\ MayStep(r)
        /\ rawStore' = <<>>
        /\ unified' = NoFile
        /\ cleaned' = NoFile
        /\ cleanedCsv' = NoFile
        /\ Goto(r, "c_ingest")
        /\ UNCHANGED <<Untouched, quality_report, result, feedback>>

\* main.py:58-91
CIngest ==
    \E r \in Calls2 :
        /\ pc[r] = "c_ingest"
        /\ MayStep(r)
        /\ IF handle_user_upload(upload[r]) = None
           THEN Returns(r, NoDataReturn) /\ UNCHANGED rawStore
           ELSE /\ rawStore' = Append(rawStore, [run |-> r, file |-> upload[r]])
                /\ Goto(r, "c_unify")
                /\ UNCHANGED result
        /\ UNCHANGED <<Untouched, unified, cleaned, cleanedCsv, quality_report,
                       feedback>>

\* main.py:93-100: the parser reads the newest user_upload file of data/raw
\* and returns no record when there is none
CUnify ==
    \E r \in Calls2 :
        /\ pc[r] = "c_unify"
        /\ MayStep(r)
        /\ LET hub_path == IF rawStore = <<>> THEN None
                           ELSE unify_to_parquet(get_latest_file(rawStore).file)
           IN  IF hub_path = None
               THEN Returns(r, FailedReturn("Unification Failed"))
                    /\ UNCHANGED unified
               ELSE /\ unified' = [run |-> get_latest_file(rawStore).run,
                                   table |-> hub_path]
                    /\ Goto(r, "c_remediate")
                    /\ UNCHANGED result
        /\ UNCHANGED <<Untouched, rawStore, cleaned, cleanedCsv, quality_report,
                       feedback>>

\* main.py:102-109
CRemediate ==
    \E r \in Calls2 :
        /\ pc[r] = "c_remediate"
        /\ MayStep(r)
        /\ IF unified = NoFile
           THEN Returns(r, FailedReturn("Remediation Failed"))
                /\ UNCHANGED <<cleaned, cleanedCsv>>
           ELSE /\ cleaned' = [run |-> unified.run,
                               table |-> BulkPass(unified.table)]
                /\ cleanedCsv' = cleaned'
                /\ Goto(r, "c_validate")
                /\ UNCHANGED result
        /\ UNCHANGED <<Untouched, rawStore, unified, quality_report, feedback>>

\* main.py:111-124
CValidate ==
    \E r \in Calls2 :
        /\ pc[r] = "c_validate"
        /\ MayStep(r)
        /\ IF cleaned = NoFile
           THEN Returns(r, FailedReturn("QA Failed"))
                /\ UNCHANGED <<quality_report, feedback>>
           ELSE /\ quality_report' =
                       [quality_report EXCEPT ![r] = validate(cleaned.table)]
                /\ feedback' = [feedback EXCEPT ![r] = cleaned.run]
                /\ Goto(r, IF NeedsFeedback(validate(cleaned.table))
                           THEN "c_feedback" ELSE "c_purge")
                /\ UNCHANGED result
        /\ UNCHANGED <<Untouched, rawStore, unified, cleaned, cleanedCsv>>

\* main.py:126 and cleaner.py:130-171: a missing cleaned file sends the
\* targeted pass back to run_remediation
CFeedback ==
    \E r \in Calls2 :
        /\ pc[r] = "c_feedback"
        /\ MayStep(r)
        /\ IF cleaned # NoFile
           THEN /\ cleaned' = [cleaned EXCEPT !.table =
                       targeted_remediation(cleaned.table, quality_report[r])]
                /\ UNCHANGED cleanedCsv
           ELSE IF unified # NoFile
           THEN /\ cleaned' = [run |-> unified.run,
                               table |-> BulkPass(unified.table)]
                /\ cleanedCsv' = cleaned'
           ELSE UNCHANGED <<cleaned, cleanedCsv>>
        /\ Goto(r, "c_revalidate")
        /\ UNCHANGED <<Untouched, rawStore, unified, quality_report, result,
                       feedback>>

\* main.py:128-129: validate returns None for a missing file, and
\* quality_report.get on None raises
CRevalidate ==
    \E r \in Calls2 :
        /\ pc[r] = "c_revalidate"
        /\ MayStep(r)
        /\ IF cleaned = NoFile
           THEN /\ quality_report' = [quality_report EXCEPT ![r] = None]
                /\ Returns(r, ErrorReport)
                /\ UNCHANGED feedback
           ELSE /\ quality_report' =
                       [quality_report EXCEPT ![r] = validate(cleaned.table)]
                /\ feedback' = [feedback EXCEPT ![r] = cleaned.run]
                /\ Goto(r, "c_purge")
                /\ UNCHANGED result
        /\ UNCHANGED <<Untouched, rawStore, unified, cleaned, cleanedCsv>>

\* main.py:141-143
CPurgeRaw ==
    \E r \in Calls2 :
        /\ pc[r] = "c_purge"
        /\ MayStep(r)
        /\ rawStore' = <<>>
        /\ Returns(r, quality_report[r])
        /\ UNCHANGED <<Untouched, unified, cleaned, cleanedCsv, quality_report,
                       feedback>>

NextConcurrent ==
    \/ CPurgeOld
    \/ CIngest
    \/ CUnify
    \/ CRemediate
    \/ CValidate
    \/ CFeedback
    \/ CRevalidate
    \/ CPurgeRaw

SpecConcurrent == InitConcurrent /\ [][NextConcurrent]_vars

\* the call r was given a file with rows
HasRows(r) == upload[r] # NoFile /\ Len(upload[r].records) > 0

\* the call r returned the report of the table made from its own upload
OwnReport(r) ==
    /\ result[r].status = "Success"
    /\ feedback[r] = r
    /\ result[r].total_records = Len(BulkPass(unify_to_parquet(upload[r])).rows)

\* the call r returned a report scored on the other call's table
ForeignReport(r) ==
    /\ pc[r] = "c_done"
    /\ result[r].status = "Success"
    /\ feedback[r] = Other(r)

\* the call r was given a file with rows and returned a failure
FailedOnGoodInput(r) ==
    /\ pc[r] = "c_done"
    /\ HasRows(r)
    /\ result[r].status \in {"Unification Failed", "Remediation Failed",
                             "QA Failed", "Error"}

\* C27: when the caller serializes the calls, every call that was given a
\* file with rows returns the report of its own data; when two calls
\* interleave, a call can fail or return a report computed from the other
\* call's data.
C27_SerializedCallsAreIsolated ==
    df.serialized =>
        \A r \in Calls2 : (pc[r] = "c_done" /\ HasRows(r)) => OwnReport(r)

\* two calls interleaved: one returned a report scored on the other's
\* table, and the other failed although its file had rows
C27_Witness ==
    /\ ~df.serialized
    /\ \E r \in Calls2 :
          /\ HasRows(r)
          /\ upload[Other(r)] # upload[r]
          /\ ForeignReport(r)
          /\ FailedOnGoodInput(Other(r))

-----------------------------------------------------------------------------
(* The rows the feedback pass of src/main.py deletes, under SpecLegacyRun. *)
(* df is cleaned_data.csv as the first scoring call read it and cleanedCsv *)
(* the same file at the end of the run.                                    *)

\* the report of the first scoring call
FirstReport == legacy_validate(df, now)

\* the stages ran and the first score sent the run through the feedback
\* pass
FeedbackTaken ==
    /\ pc = "lr_done"
    /\ df # NoFile
    /\ FirstReport # None
    /\ FirstReport.overall_trustability < Threshold

\* what the scorer flags in row i of the file: the address of an earlier
\* row, or a price that is not a number
Flagged(t, i) ==
    \/ \E j \in 1..(i - 1) : t.rows[j]["address"] = t.rows[i]["address"]
    \/ t.rows[i]["price"] \notin Numerals

\* C28: the row indices of issue_metadata denote the same rows when the
\* targeted pass consumes them: it reads the file the scorer read, deleting
\* the duplicate indices does not renumber the rows before the integrity
\* indices are applied, and no row the scorer did not flag is deleted.
C28_IndicesDenoteFlaggedRows ==
    FeedbackTaken =>
        /\ Range(FirstReport.issue_metadata.duplicate_indices)
             \cup Range(FirstReport.issue_metadata.integrity_fail_indices)
               = {i - 1 : i \in {k \in 1..Len(df.rows) : Flagged(df, k)}}
        /\ cleanedCsv.rows =
               SelectIdx(df.rows,
                         {i \in 1..Len(df.rows) : ~Flagged(df, i)}, 1)

C28_Witness ==
    /\ FeedbackTaken
    /\ Len(df.rows) = 3
    /\ FirstReport.issue_metadata.duplicate_indices = <<1>>
    /\ FirstReport.issue_metadata.integrity_fail_indices = <<2>>
    /\ cleanedCsv.rows = <<df.rows[1]>>

-----------------------------------------------------------------------------
(* What a call leaves of the previous run, under SpecRuns *)

\* a file written by a run before the current one is in a store
PreviousRunFileLeft ==
    \/ \E i \in 1..Len(rawStore) : rawStore[i].run < now
    \/ unified # NoFile /\ unified.run < now
    \/ cleaned # NoFile /\ cleaned.run < now
    \/ cleanedCsv # NoFile /\ cleanedCsv.run < now

\* C29: every call of run_pipeline, whatever its outcome, erases all files
\* of the previous run in the raw and processed stores before it ingests,
\* so a call that ends without data or with a failure leaves no previous
\* unified or cleaned table behind.
C29_CallErasesPreviousRun == now > 0 => ~PreviousRunFileLeft

-----------------------------------------------------------------------------
(* The raw artifact at the end of a run that failed, under Spec *)

FailureStatuses ==
    {"Unification Failed", "Remediation Failed", "QA Failed", "Error"}

\* ingestion archived the upload and the run went on to unification
ArtifactWritten == Calls("unify") # {}

\* the run returned a failure report after ingestion had written its
\* artifact
FailedAfterIngestion ==
    /\ pc = "done"
    /\ ArtifactWritten
    /\ result.status \in FailureStatuses

====
